---- MODULE Spec2Model ----
(***************************************************************************)
(* A model of the tiered Bimaru (Battleship puzzle) solver:                *)
(*   board.py      PuzzleBoard, snapshots                                  *)
(*   puzzle_io.py  build_board_from_puzzle                                 *)
(*   rules.py      the rule registry T1.1 .. T5.2 and the T5 propagators   *)
(*   solver.py     TieredSolver.solve and its helpers                      *)
(* The board is a record; its cell attributes are functions over the       *)
(* coordinates <<r, c>> with 0 <= r, c < dimension.                        *)
(***************************************************************************)
EXTENDS Integers, Sequences, FiniteSets, TLC

VARIABLES
    board,            \* TieredSolver.board (PuzzleBoard)
    pc,               \* position inside TieredSolver.solve
    tier,             \* loop variable of "for tier in [1, 2, 3, 4, 5]"
    rule_idx,         \* position inside RULES[tier] in _apply_tier (1-based)
    deductions,       \* the batch returned by _apply_tier, not yet recorded
    pending,          \* the part of the batch _apply_deductions has not written yet
    iterations,       \* solve: iterations
    inconsistent,     \* solve: inconsistent
    progress,         \* solve: progress
    techniques_used,  \* TieredSolver.techniques_used
    tier_usage,       \* TieredSolver.tier_usage
    applied_cells,    \* TieredSolver._applied_cells
    result,           \* the SolveResult returned (solved, stuck, valid)
    snap,             \* a snapshot string held by a caller of get_snapshot
    entry             \* the board as it was handed to solve (history)

vars == <<board, pc, tier, rule_idx, deductions, pending, iterations,
          inconsistent, progress, techniques_used, tier_usage, applied_cells,
          result, snap, entry>>

----------------------------------------------------------------------------
(* Bounds of the model *)

\* PuzzleBoard.dimension of the explored boards without hints (10 in the program)
Dim == 4
\* PuzzleBoard.dimension of the explored boards that carry hints
HintDim == 3
\* the largest number of initial hints of an explored puzzle
MaxHints == 1
\* the largest number of cells changed between a snapshot and its restore
MaxChanges == 1
\* the number of hints of the explored puzzles whose hints all leave their cell unknown
UnknownHints == 3
\* PuzzleBoard.dimension of the boards explored in every combination of cell states
RunsDim == 3
\* PuzzleBoard.dimension of the boards explored with placed ships
FleetDim == 5
\* PuzzleBoard.dimension of the boards whose batches are filtered
FilterDim == 2
\* the longest batch handed to _filter_diagonal_conflicts
MaxBatch == 3
\* PuzzleBoard.dimension, the dimension of the boards of the end-to-end scenarios
ScenarioDim == 10

----------------------------------------------------------------------------
(* board.py *)

EMPTY == 0
SEA == 1
SHIP == 2
CellState == {EMPTY, SEA, SHIP}

ORTHOGONAL == << <<-1, 0>>, <<0, -1>>, <<1, 0>>, <<0, 1>> >>

\* the four directions along a row or a column
AXIAL == << <<-1, 0>>, <<1, 0>>, <<0, -1>>, <<0, 1>> >>

DIAGONAL == << <<-1, -1>>, <<-1, 1>>, <<1, -1>>, <<1, 1>> >>
FLEET == <<4, 3, 3, 2, 2, 2, 1, 1, 1, 1>>

\* "hint_shape is None"
NoShape == <<>>

Idx(d) == 0 .. (d - 1)
CellsOf(d) == Idx(d) \X Idx(d)

RECURSIVE Flatten(_)
Flatten(ss) == IF ss = <<>> THEN <<>> ELSE Head(ss) \o Flatten(Tail(ss))

Range(s) == {s[i] : i \in DOMAIN s}

\* the function f with every value computed (a list or a grid held in memory)
Stored(f) == f @@ <<>>

Abs(x) == IF x < 0 THEN -x ELSE x

\* the coordinates in the order of "for r in range(d): for c in range(d)"
RowMajor(d) == [k \in 1 .. d * d |-> <<(k - 1) \div d, (k - 1) % d>>]

within_bounds(b, r, c) == 0 <= r /\ r < b.dimension /\ 0 <= c /\ c < b.dimension

get_state_at(b, r, c) == IF within_bounds(b, r, c) THEN b.state[<<r, c>>] ELSE SEA

get_solution_at(b, r, c) == IF within_bounds(b, r, c) THEN b.solution[<<r, c>>] ELSE SEA

count_empty(b) == Cardinality({x \in CellsOf(b.dimension) : b.state[x] = EMPTY})

is_solved(b) == count_empty(b) = 0

matches_solution(b) == \A x \in CellsOf(b.dimension) : b.state[x] = b.solution[x]

\* PuzzleBoard() with every GridCell at its defaults
NewBoard(d) ==
    [dimension |-> d,
     state |-> [x \in CellsOf(d) |-> EMPTY],
     solution |-> [x \in CellsOf(d) |-> EMPTY],
     is_hint |-> [x \in CellsOf(d) |-> FALSE],
     hint_shape |-> [x \in CellsOf(d) |-> NoShape],
     row_counts |-> [i \in Idx(d) |-> 0],
     col_counts |-> [i \in Idx(d) |-> 0]]

SnapChar(b, x) ==
    IF b.is_hint[x] THEN (IF b.state[x] = SHIP THEN "H" ELSE "h")
    ELSE IF b.state[x] = EMPTY THEN " "
    ELSE IF b.state[x] = SHIP THEN "S"
    ELSE "~"

get_snapshot(b) ==
    Stored([k \in 1 .. b.dimension * b.dimension |-> SnapChar(b, RowMajor(b.dimension)[k])])

RestoredHint(ch) == ch = "H" \/ ch = "h"

RestoredState(ch) ==
    IF ch = "H" THEN SHIP
    ELSE IF ch = "h" THEN SEA
    ELSE IF ch = "S" THEN SHIP
    ELSE IF ch = "~" THEN SEA
    ELSE EMPTY

\* idx enumerates the snapshot from 0; r, c = divmod(idx, dimension)
restore_snapshot(b, snapshot) ==
    LET d == b.dimension
        covered(x) == x[1] * d + x[2] + 1 <= Len(snapshot)
        ch(x) == snapshot[x[1] * d + x[2] + 1]
    IN [b EXCEPT
          !.state = Stored([x \in CellsOf(d) |->
                       IF covered(x) THEN RestoredState(ch(x)) ELSE b.state[x]]),
          !.is_hint = Stored([x \in CellsOf(d) |->
                       IF covered(x) THEN RestoredHint(ch(x)) ELSE b.is_hint[x]])]

----------------------------------------------------------------------------
(* rules.py: helpers *)

make_deduction(r, c, value, technique, t, difficulty) ==
    [row |-> r, col |-> c, value |-> value, technique |-> technique,
     tier |-> t, difficulty |-> difficulty]

\* the cells of a line in the order of "for i in range(board.dimension)"
LineCells(b, idx, is_row) ==
    [i \in 1 .. b.dimension |-> IF is_row THEN <<idx, i - 1>> ELSE <<i - 1, idx>>]

\* (ship_count, empty_count, sea_count)
count_in_line(b, idx, is_row) ==
    LET line == Range(LineCells(b, idx, is_row))
    IN <<Cardinality({x \in line : b.state[x] = SHIP}),
         Cardinality({x \in line : b.state[x] = EMPTY}),
         Cardinality({x \in line : b.state[x] \notin {SHIP, EMPTY}})>>

get_clue(b, idx, is_row) == IF is_row THEN b.row_counts[idx] ELSE b.col_counts[idx]

\* one deduction per cell of the line, whatever its state
CellsOfLine(b, idx, is_row, value, technique, t, difficulty) ==
    LET line == LineCells(b, idx, is_row)
    IN [k \in 1 .. Len(line) |->
          make_deduction(line[k][1], line[k][2], value, technique, t, difficulty)]

\* one deduction per EMPTY cell of the line, in line order
EmptiesOfLine(b, idx, is_row, value, technique, t, difficulty) ==
    LET line == LineCells(b, idx, is_row)
        empties == SelectSeq(line, LAMBDA x : b.state[x] = EMPTY)
    IN [k \in 1 .. Len(empties) |->
          make_deduction(empties[k][1], empties[k][2], value, technique, t, difficulty)]

\* the lines in the order of "for idx in range(dimension): for is_row in [True, False]"
LinesInOrder(d) == [k \in 1 .. 2 * d |-> <<(k - 1) \div 2, (k - 1) % 2 = 0>>]

----------------------------------------------------------------------------
(* rules.py: tier 1 *)

zero_clue(b) ==
    Flatten([k \in 1 .. 2 * b.dimension |->
        LET idx == LinesInOrder(b.dimension)[k][1]
            is_row == LinesInOrder(b.dimension)[k][2]
        IN IF get_clue(b, idx, is_row) = 0
           THEN EmptiesOfLine(b, idx, is_row, SEA, "T1.1", 1, 1)
           ELSE <<>>])

\* a satisfied_clue that proposes nothing
satisfied_clue_silent(b) == <<>>

satisfied_clue(b) ==
    Flatten([k \in 1 .. 2 * b.dimension |->
        LET idx == LinesInOrder(b.dimension)[k][1]
            is_row == LinesInOrder(b.dimension)[k][2]
            cnt == count_in_line(b, idx, is_row)
        IN IF cnt[1] = get_clue(b, idx, is_row) /\ cnt[2] > 0
           THEN EmptiesOfLine(b, idx, is_row, SEA, "T1.2", 1, 1)
           ELSE <<>>])

\* the in-bounds neighbours of x along dirs, in the order of dirs
Neighbours(b, x, dirs) ==
    LET all == [k \in 1 .. Len(dirs) |-> <<x[1] + dirs[k][1], x[2] + dirs[k][2]>>]
    IN SelectSeq(all, LAMBDA y : within_bounds(b, y[1], y[2]))

diagonal_water(b) ==
    Flatten([k \in 1 .. b.dimension * b.dimension |->
        LET x == RowMajor(b.dimension)[k]
            nb == SelectSeq(Neighbours(b, x, DIAGONAL), LAMBDA y : b.state[y] = EMPTY)
        IN IF b.state[x] # SHIP THEN <<>>
           ELSE [j \in 1 .. Len(nb) |-> make_deduction(nb[j][1], nb[j][2], SEA, "T1.3", 1, 1)]])

hint_shape_deduction(b) ==
    Flatten([k \in 1 .. b.dimension * b.dimension |->
        LET x == RowMajor(b.dimension)[k]
            shape == b.hint_shape[x]
            hits == SelectSeq(shape, LAMBDA e :
                       /\ within_bounds(b, x[1] + e[1][1], x[2] + e[1][2])
                       /\ b.state[<<x[1] + e[1][1], x[2] + e[1][2]>>] = EMPTY
                       /\ e[2] \in {SHIP, SEA})
        IN IF ~b.is_hint[x] \/ b.state[x] # SHIP \/ shape = NoShape THEN <<>>
           ELSE [j \in 1 .. Len(hits) |->
                   make_deduction(x[1] + hits[j][1][1], x[2] + hits[j][1][2],
                                  hits[j][2], "T1.4", 1, 1)]])

----------------------------------------------------------------------------
(* rules.py: tier 2 *)

\* a T2.1 that proposes nothing
exact_fit_silent(b) == <<>>

exact_fit(b) ==
    Flatten([k \in 1 .. 2 * b.dimension |->
        LET idx == LinesInOrder(b.dimension)[k][1]
            is_row == LinesInOrder(b.dimension)[k][2]
            cnt == count_in_line(b, idx, is_row)
            needed == get_clue(b, idx, is_row) - cnt[1]
        IN IF needed > 0 /\ cnt[2] = needed
           THEN EmptiesOfLine(b, idx, is_row, SHIP, "T2.1", 2, 3)
           ELSE <<>>])

overflow_prevention(b) ==
    LET full(x) == \/ count_in_line(b, x[1], TRUE)[1] >= b.row_counts[x[1]]
                   \/ count_in_line(b, x[2], FALSE)[1] >= b.col_counts[x[2]]
        hits == SelectSeq(RowMajor(b.dimension), LAMBDA x : b.state[x] = EMPTY /\ full(x))
    IN [k \in 1 .. Len(hits) |-> make_deduction(hits[k][1], hits[k][2], SEA, "T2.4", 2, 3)]

----------------------------------------------------------------------------
(* rules.py: tier 3 *)

\* the state at position i (0-based) of a line
LineState(b, idx, is_row, i) == b.state[LineCells(b, idx, is_row)[i + 1]]

\* the classification of the orthogonal neighbours of a cell, each list in
\* the order of ORTHOGONAL
ShipNeighbours(b, x) == SelectSeq(Neighbours(b, x, ORTHOGONAL), LAMBDA y : b.state[y] = SHIP)

EmptyNeighbours(b, x) == SelectSeq(Neighbours(b, x, ORTHOGONAL), LAMBDA y : b.state[y] = EMPTY)

BlockedCount(b, x) ==
    (4 - Len(Neighbours(b, x, ORTHOGONAL)))
    + Len(SelectSeq(Neighbours(b, x, ORTHOGONAL), LAMBDA y : b.state[y] = SEA))

forced_extension(b) ==
    Flatten([k \in 1 .. b.dimension * b.dimension |->
        LET x == RowMajor(b.dimension)[k]
            ship_neighbors == ShipNeighbours(b, x)
            empty_neighbors == EmptyNeighbours(b, x)
            blocked_count == BlockedCount(b, x)
            ship_dir == <<ship_neighbors[1][1] - x[1], ship_neighbors[1][2] - x[2]>>
            empty_dir == <<empty_neighbors[1][1] - x[1], empty_neighbors[1][2] - x[2]>>
            same_axis == \/ (ship_dir[1] = 0 /\ empty_dir[1] = 0)
                         \/ (ship_dir[2] = 0 /\ empty_dir[2] = 0)
            end_piece == IF Len(ship_neighbors) = 1 /\ Len(empty_neighbors) = 1 /\ same_axis
                         THEN <<make_deduction(empty_neighbors[1][1], empty_neighbors[1][2],
                                               SHIP, "T3.1", 3, 5)>>
                         ELSE <<>>
            lone == IF Len(ship_neighbors) = 0 /\ Len(empty_neighbors) = 1 /\ blocked_count = 3
                    THEN <<make_deduction(empty_neighbors[1][1], empty_neighbors[1][2],
                                          SHIP, "T3.1", 3, 5)>>
                    ELSE <<>>
        IN IF b.state[x] # SHIP THEN <<>> ELSE end_piece \o lone])

\* the contiguous EMPTY segments of a line as (start, end), ascending
EmptySegments(b, idx, is_row) ==
    LET d == b.dimension
        isE(i) == i >= 0 /\ i < d /\ LineState(b, idx, is_row, i) = EMPTY
        starts == SelectSeq([i \in 1 .. d |-> i - 1], LAMBDA i : isE(i) /\ ~isE(i - 1))
        endOf(s) == CHOOSE e \in s .. (d - 1) :
                       (\A j \in s .. e : isE(j)) /\ ~isE(e + 1)
    IN [k \in 1 .. Len(starts) |-> <<starts[k], endOf(starts[k])>>]

overlap_analysis(b) ==
    Flatten([k \in 1 .. 2 * b.dimension |->
        LET idx == LinesInOrder(b.dimension)[k][1]
            is_row == LinesInOrder(b.dimension)[k][2]
            cnt == count_in_line(b, idx, is_row)
            needed == get_clue(b, idx, is_row) - cnt[1]
            segments == EmptySegments(b, idx, is_row)
            start == segments[1][1]
            L == segments[1][2] - segments[1][1] + 1
            M == needed
            forced == SelectSeq([i \in 1 .. b.dimension |-> i - 1],
                         LAMBDA i : /\ i - start >= L - M
                                    /\ i - start <= M - 1
                                    /\ LineState(b, idx, is_row, i) = EMPTY)
        IN IF needed <= 0 \/ Len(segments) # 1 THEN <<>>
           ELSE IF ~(M > 0 /\ L >= M /\ L > M) THEN <<>>
           ELSE [j \in 1 .. Len(forced) |->
                   LET x == LineCells(b, idx, is_row)[forced[j] + 1]
                   IN make_deduction(x[1], x[2], SHIP, "T3.3", 3, 6)]])

three_blocked_sides(b) ==
    Flatten([k \in 1 .. b.dimension * b.dimension |->
        LET x == RowMajor(b.dimension)[k]
            open_neighbors == EmptyNeighbours(b, x)
        IN IF b.state[x] # SHIP THEN <<>>
           ELSE IF BlockedCount(b, x) = 3 /\ Len(open_neighbors) = 1
                   /\ Len(ShipNeighbours(b, x)) = 0
                THEN <<make_deduction(open_neighbors[1][1], open_neighbors[1][2],
                                      SHIP, "T3.4", 3, 5)>>
                ELSE <<>>])

----------------------------------------------------------------------------
(* rules.py: ship tracking helpers *)

\* the first position >= i of the line that is not SHIP (dimension at the edge):
\* where "while c < board.dimension and state == SHIP" stops
RunStop(b, idx, is_row, i) ==
    LET d == b.dimension
    IN CHOOSE e \in i .. d :
          /\ \A j \in i .. (e - 1) : LineState(b, idx, is_row, j) = SHIP
          /\ (e = d \/ LineState(b, idx, is_row, e) # SHIP)

\* the cells i .. e-1 of a line, in order
RunCells(b, idx, is_row, i, e) ==
    [j \in 1 .. (e - i) |-> LineCells(b, idx, is_row)[i + j]]

\* the horizontal sweep of row r from column c on; acc = [visited, found]
RECURSIVE HorizontalSweep(_, _, _, _)
HorizontalSweep(b, r, c, acc) ==
    IF c >= b.dimension THEN acc
    ELSE IF b.state[<<r, c>>] = SHIP /\ <<r, c>> \notin acc.visited
    THEN IF c > 0 /\ b.state[<<r, c - 1>>] # SEA
         THEN HorizontalSweep(b, r, c + 1, acc)
         ELSE LET e == RunStop(b, r, TRUE, c)
                  run == RunCells(b, r, TRUE, c, e)
                  seen == acc.visited \cup Range(run)
                  above == get_state_at(b, r - 1, c)
                  below == get_state_at(b, r + 1, c)
              IN IF e < b.dimension /\ b.state[<<r, e>>] # SEA
                 THEN HorizontalSweep(b, r, e, [acc EXCEPT !.visited = seen])
                 ELSE IF Len(run) > 1
                 THEN HorizontalSweep(b, r, e,
                         [visited |-> seen, found |-> Append(acc.found, <<Len(run), run>>)])
                 ELSE IF above = SEA /\ below = SEA
                 THEN HorizontalSweep(b, r, e,
                         [visited |-> seen, found |-> Append(acc.found, <<1, run>>)])
                 ELSE HorizontalSweep(b, r, e, [acc EXCEPT !.visited = seen])
    ELSE HorizontalSweep(b, r, c + 1, acc)

\* the vertical sweep of column c from row r on
RECURSIVE VerticalSweep(_, _, _, _)
VerticalSweep(b, c, r, acc) ==
    IF r >= b.dimension THEN acc
    ELSE IF b.state[<<r, c>>] = SHIP /\ <<r, c>> \notin acc.visited
    THEN IF r > 0 /\ b.state[<<r - 1, c>>] # SEA
         THEN VerticalSweep(b, c, r + 1, acc)
         ELSE LET e == RunStop(b, c, FALSE, r)
                  run == RunCells(b, c, FALSE, r, e)
                  seen == acc.visited \cup Range(run)
              IN IF e < b.dimension /\ b.state[<<e, c>>] # SEA
                 THEN VerticalSweep(b, c, e, [acc EXCEPT !.visited = seen])
                 ELSE IF Len(run) > 1
                 THEN VerticalSweep(b, c, e,
                         [visited |-> seen, found |-> Append(acc.found, <<Len(run), run>>)])
                 ELSE VerticalSweep(b, c, e, [acc EXCEPT !.visited = seen])
    ELSE VerticalSweep(b, c, r + 1, acc)

RECURSIVE SweepRows(_, _, _)
SweepRows(b, r, acc) ==
    IF r >= b.dimension THEN acc
    ELSE CHOOSE out \in {SweepRows(b, r + 1, next) : next \in {HorizontalSweep(b, r, 0, acc)}} : TRUE

RECURSIVE SweepCols(_, _, _)
SweepCols(b, c, acc) ==
    IF c >= b.dimension THEN acc
    ELSE CHOOSE out \in {SweepCols(b, c + 1, next) : next \in {VerticalSweep(b, c, 0, acc)}} : TRUE

\* the list of (length, cells) of the complete ship runs the sweeps find
find_ship_runs(b) == SweepCols(b, 0, SweepRows(b, 0, [visited |-> {}, found |-> <<>>])).found

\* list.remove(size): the list without the first occurrence of size
RemoveFirst(s, size) ==
    LET k == CHOOSE i \in 1 .. Len(s) : s[i] = size /\ \A j \in 1 .. (i - 1) : s[j] # size
    IN [i \in 1 .. (Len(s) - 1) |-> IF i < k THEN s[i] ELSE s[i + 1]]

RECURSIVE RemovePlaced(_, _)
RemovePlaced(remaining, placed) ==
    IF placed = <<>> THEN remaining
    ELSE IF Head(placed) \in Range(remaining)
    THEN RemovePlaced(RemoveFirst(remaining, Head(placed)), Tail(placed))
    ELSE RemovePlaced(remaining, Tail(placed))

PlacedSizes(b) == LET runs == find_ship_runs(b) IN [k \in 1 .. Len(runs) |-> runs[k][1]]

get_remaining_ships(b) == RemovePlaced(FLEET, PlacedSizes(b))

MinOf(S) == CHOOSE m \in S : \A n \in S : m <= n

MaxOf(S) == CHOOSE m \in S : \A n \in S : m >= n

get_largest_remaining(b) ==
    LET remaining == get_remaining_ships(b)
    IN IF remaining # <<>> THEN MaxOf(Range(remaining)) ELSE 0

\* Counter(list)[size]
CountOf(s, size) == Cardinality({i \in DOMAIN s : s[i] = size})

is_fleet_consistent(b) ==
    LET placed_sizes == PlacedSizes(b)
        max_fleet_size == MaxOf(Range(FLEET))
    IN IF placed_sizes = <<>> THEN TRUE
       ELSE /\ \A i \in DOMAIN placed_sizes : ~(placed_sizes[i] > max_fleet_size)
            /\ \A size \in Range(placed_sizes) :
                  ~(CountOf(placed_sizes, size) > CountOf(FLEET, size))

----------------------------------------------------------------------------
(* rules.py: tier 4 *)

\* the lines in the order "every row, then every column"
RowsThenCols(d) == [k \in 1 .. 2 * d |-> IF k <= d THEN <<k - 1, TRUE>> ELSE <<k - 1 - d, FALSE>>]

\* the state next to a line: SEA beyond the far edge ("treat edge as sea")
StateAt(b, idx, is_row, i) == IF i < b.dimension THEN LineState(b, idx, is_row, i) ELSE SEA

gap_analysis(b) ==
    LET remaining == get_remaining_ships(b)
        smallest == MinOf(Range(remaining))
        d == b.dimension
    IN IF remaining = <<>> THEN <<>>
       ELSE Flatten([k \in 1 .. 2 * d |->
              LET idx == RowsThenCols(d)[k][1]
                  is_row == RowsThenCols(d)[k][2]
                  gaps == EmptySegments(b, idx, is_row)
              IN Flatten([g \in 1 .. Len(gaps) |->
                   LET gap_start == gaps[g][1]
                       stop == gaps[g][2] + 1
                       gap_len == stop - gap_start
                       left_blocked == gap_start = 0
                                       \/ LineState(b, idx, is_row, gap_start - 1) = SEA
                       right_blocked == StateAt(b, idx, is_row, stop) = SEA
                   IN IF left_blocked /\ right_blocked /\ gap_len < smallest
                      THEN [j \in 1 .. gap_len |->
                              LET x == LineCells(b, idx, is_row)[gap_start + j]
                              IN make_deduction(x[1], x[2], SEA, "T4.1", 4, 7)]
                      ELSE <<>>])])

\* the maximal SHIP runs of a line as (run_start, run_len), ascending
ShipRuns(b, idx, is_row) ==
    LET d == b.dimension
        isS(i) == i >= 0 /\ i < d /\ LineState(b, idx, is_row, i) = SHIP
        starts == SelectSeq([i \in 1 .. d |-> i - 1], LAMBDA i : isS(i) /\ ~isS(i - 1))
    IN [k \in 1 .. Len(starts) |-> <<starts[k], RunStop(b, idx, is_row, starts[k]) - starts[k]>>]

\* a set of small integers in the order in which CPython iterates it
SetInOrder(S) == SelectSeq([i \in 1 .. Len(FLEET) |-> i], LAMBDA i : i \in S)

\* the deductions fleet_exhaustion makes for one exhausted length
ExhaustedLength(b, length) ==
    LET d == b.dimension
    IN Flatten([k \in 1 .. 2 * d |->
         LET idx == RowsThenCols(d)[k][1]
             is_row == RowsThenCols(d)[k][2]
             runs == ShipRuns(b, idx, is_row)
             line == LineCells(b, idx, is_row)
         IN Flatten([g \in 1 .. Len(runs) |->
              LET run_start == runs[g][1]
                  run_len == runs[g][2]
                  stop == run_start + run_len
                  left_open == run_start > 0
                               /\ LineState(b, idx, is_row, run_start - 1) = EMPTY
                  right_open == stop < d /\ LineState(b, idx, is_row, stop) = EMPTY
                  grow_left == IF left_open /\ run_len + 1 = length
                               THEN <<make_deduction(line[run_start][1], line[run_start][2],
                                                     SEA, "T4.2", 4, 7)>>
                               ELSE <<>>
                  grow_right == IF right_open /\ run_len + 1 = length
                                THEN <<make_deduction(line[stop + 1][1], line[stop + 1][2],
                                                      SEA, "T4.2", 4, 7)>>
                                ELSE <<>>
              IN IF run_len < length THEN grow_left \o grow_right ELSE <<>>])])

fleet_exhaustion(b) ==
    LET remaining == get_remaining_ships(b)
        all_lengths == Range(FLEET)
        placed_lengths == SetInOrder(all_lengths \ Range(remaining))
    IN Flatten([k \in 1 .. Len(placed_lengths) |-> ExhaustedLength(b, placed_lengths[k])])

cap_ship(b) ==
    LET max_size == get_largest_remaining(b)
        d == b.dimension
    IN IF max_size = 0 THEN <<>>
       ELSE Flatten([k \in 1 .. 2 * d |->
              LET idx == RowsThenCols(d)[k][1]
                  is_row == RowsThenCols(d)[k][2]
                  runs == ShipRuns(b, idx, is_row)
                  line == LineCells(b, idx, is_row)
              IN Flatten([g \in 1 .. Len(runs) |->
                   LET run_start == runs[g][1]
                       run_len == runs[g][2]
                       stop == run_start + run_len
                       before == IF run_start > 0
                                    /\ LineState(b, idx, is_row, run_start - 1) = EMPTY
                                 THEN <<make_deduction(line[run_start][1], line[run_start][2],
                                                       SEA, "T4.3", 4, 7)>>
                                 ELSE <<>>
                       after == IF stop < d /\ LineState(b, idx, is_row, stop) = EMPTY
                                THEN <<make_deduction(line[stop + 1][1], line[stop + 1][2],
                                                      SEA, "T4.3", 4, 7)>>
                                ELSE <<>>
                   IN IF run_len = max_size THEN before \o after ELSE <<>>])])

\* the number of consecutive SHIP cells from x (excluded) in direction dir
RECURSIVE ShipsToward(_, _, _)
ShipsToward(b, x, dir) ==
    LET y == <<x[1] + dir[1], x[2] + dir[2]>>
    IN IF within_bounds(b, y[1], y[2]) /\ b.state[y] = SHIP
       THEN 1 + ShipsToward(b, y, dir)
       ELSE 0

prevent_long_join(b) ==
    LET max_size == get_largest_remaining(b)
        horizontal(x) == ShipsToward(b, x, <<0, -1>>) + ShipsToward(b, x, <<0, 1>>) + 1
        vertical(x) == ShipsToward(b, x, <<-1, 0>>) + ShipsToward(b, x, <<1, 0>>) + 1
        hits == SelectSeq(RowMajor(b.dimension), LAMBDA x :
                   b.state[x] = EMPTY /\ (horizontal(x) > max_size \/ vertical(x) > max_size))
    IN IF max_size = 0 THEN <<>>
       ELSE [k \in 1 .. Len(hits) |-> make_deduction(hits[k][1], hits[k][2], SEA, "T4.4", 4, 8)]

----------------------------------------------------------------------------
(* rules.py: tier 5, the incremental propagator *)

\* the safety cap of the worklist loop ("steps < 200")
PropagatorCap == 200

\* hint_constraints: the dict built from the shape maps of the SHIP hints; a
\* later hint (row-major) overwrites an earlier one at the same coordinate
HintConstraints(b) ==
    LET d == b.dimension
        active(x) == b.is_hint[x] /\ b.state[x] = SHIP /\ b.hint_shape[x] # NoShape
        pins(x, y) == {e \in Range(b.hint_shape[x]) : <<x[1] + e[1][1], x[2] + e[1][2]>> = y}
        writers(y) == {k \in 1 .. d * d :
                         active(RowMajor(d)[k]) /\ pins(RowMajor(d)[k], y) # {}}
        pinned == {y \in CellsOf(d) : writers(y) # {}}
    IN [y \in pinned |->
          LET x == RowMajor(d)[MaxOf(writers(y))]
              last == MaxOf({j \in DOMAIN b.hint_shape[x] :
                               <<x[1] + b.hint_shape[x][j][1][1],
                                 x[2] + b.hint_shape[x][j][1][2]>> = y})
          IN b.hint_shape[x][last][2]]

\* _IncrementalPropagator.__init__
IncrementalPropagator(b) ==
    LET d == b.dimension
    IN [board |-> b,
        row_ships |-> [r \in Idx(d) |-> count_in_line(b, r, TRUE)[1]],
        row_empties |-> [r \in Idx(d) |-> count_in_line(b, r, TRUE)[2]],
        col_ships |-> [c \in Idx(d) |-> count_in_line(b, c, FALSE)[1]],
        col_empties |-> [c \in Idx(d) |-> count_in_line(b, c, FALSE)[2]],
        hint_constraints |-> HintConstraints(b),
        dirty |-> <<>>,
        contradiction |-> FALSE,
        steps |-> 0]

Pinned(p, y) == y \in DOMAIN p.hint_constraints

\* a cell of the board becomes SEA and the counters are left as they were
PlaceSeaUncounted(p, y) ==
    [p EXCEPT !.board.state[y] = SEA,
              !.dirty = @ \o << <<"row", y[1]>>, <<"col", y[2]>> >>]

\* a cell of the board becomes SEA and its two lines are enqueued twice
PlaceSeaEager(p, y) ==
    [p EXCEPT !.board.state[y] = SEA,
              !.row_empties[y[1]] = @ - 1,
              !.col_empties[y[2]] = @ - 1,
              !.dirty = @ \o << <<"row", y[1]>>, <<"col", y[2]>>,
                                <<"row", y[1]>>, <<"col", y[2]>> >>]

\* a cell of the board becomes SEA: state, counters, and its two lines enqueued
PlaceSea(p, y) ==
    [p EXCEPT !.board.state[y] = SEA,
              !.row_empties[y[1]] = @ - 1,
              !.col_empties[y[2]] = @ - 1,
              !.dirty = @ \o << <<"row", y[1]>>, <<"col", y[2]>> >>]

\* a cell of the board becomes SHIP: state, counters, and its two lines enqueued
PlaceShip(p, y) ==
    [p EXCEPT !.board.state[y] = SHIP,
              !.row_empties[y[1]] = @ - 1,
              !.col_empties[y[2]] = @ - 1,
              !.row_ships[y[1]] = @ + 1,
              !.col_ships[y[2]] = @ + 1,
              !.dirty = @ \o << <<"row", y[1]>>, <<"col", y[2]>> >>]

\* "Add diagonal water": the diagonals of x from the k-th direction on
RECURSIVE DiagonalSea(_, _, _)
DiagonalSea(p, x, k) ==
    IF k > Len(DIAGONAL) THEN p
    ELSE LET y == <<x[1] + DIAGONAL[k][1], x[2] + DIAGONAL[k][2]>>
         IN IF within_bounds(p.board, y[1], y[2]) /\ p.board.state[y] = EMPTY
            THEN IF Pinned(p, y) /\ p.hint_constraints[y] # SEA
                 THEN [p EXCEPT !.contradiction = TRUE]
                 ELSE DiagonalSea(PlaceSea(p, y), x, k + 1)
            ELSE DiagonalSea(p, x, k + 1)

\* "ships == clue and empties > 0": the line from position i on
RECURSIVE FillSea(_, _, _, _)
FillSea(p, idx, is_row, i) ==
    IF i >= p.board.dimension THEN p
    ELSE LET y == LineCells(p.board, idx, is_row)[i + 1]
         IN IF p.board.state[y] = EMPTY
            THEN IF Pinned(p, y) /\ p.hint_constraints[y] # SEA
                 THEN [p EXCEPT !.contradiction = TRUE]
                 ELSE FillSea(PlaceSea(p, y), idx, is_row, i + 1)
            ELSE FillSea(p, idx, is_row, i + 1)

\* "needed > 0 and empties == needed": the line from position i on
RECURSIVE FillShip(_, _, _, _)
FillShip(p, idx, is_row, i) ==
    IF i >= p.board.dimension THEN p
    ELSE LET y == LineCells(p.board, idx, is_row)[i + 1]
             touching == \E k \in 1 .. Len(Neighbours(p.board, y, DIAGONAL)) :
                            p.board.state[Neighbours(p.board, y, DIAGONAL)[k]] = SHIP
             q == DiagonalSea(PlaceShip(p, y), y, 1)
         IN IF p.board.state[y] = EMPTY
            THEN IF touching \/ p.contradiction
                 THEN [p EXCEPT !.contradiction = TRUE]
                 ELSE IF Pinned(p, y) /\ p.hint_constraints[y] # SHIP
                 THEN [p EXCEPT !.contradiction = TRUE]
                 ELSE FillShip(q, idx, is_row, i + 1)
            ELSE FillShip(p, idx, is_row, i + 1)

\* one pass of the body of "while dirty and not contradiction and steps < 200"
PropagateLine(p) ==
    LET line_type == Head(p.dirty)[1]
        idx == Head(p.dirty)[2]
        is_row == line_type = "row"
        ships == IF is_row THEN p.row_ships[idx] ELSE p.col_ships[idx]
        empties == IF is_row THEN p.row_empties[idx] ELSE p.col_empties[idx]
        clue == get_clue(p.board, idx, is_row)
        needed == clue - ships
        q == [p EXCEPT !.steps = @ + 1, !.dirty = Tail(@)]
    IN IF ships > clue \/ ships + empties < clue
       THEN [q EXCEPT !.contradiction = TRUE]
       ELSE IF ships = clue /\ empties > 0
       THEN FillSea(q, idx, is_row, 0)
       ELSE IF needed > 0 /\ empties = needed
       THEN FillShip(q, idx, is_row, 0)
       ELSE q

RECURSIVE Propagate(_)
Propagate(p) ==
    IF p.dirty # <<>> /\ ~p.contradiction /\ p.steps < PropagatorCap
    THEN Propagate(PropagateLine(p))
    ELSE p

\* "Check fleet consistency" at the end of test_ship and test_water
FleetChecked(p) ==
    IF ~p.contradiction /\ ~is_fleet_consistent(p.board)
    THEN [p EXCEPT !.contradiction = TRUE]
    ELSE p

\* the propagator after test_ship(r, c); its field contradiction is the value returned
test_ship(p, x) ==
    IF Pinned(p, x) /\ p.hint_constraints[x] # SHIP
    THEN [p EXCEPT !.contradiction = TRUE]
    ELSE FleetChecked(Propagate(DiagonalSea(PlaceShip([p EXCEPT !.dirty = <<>>], x), x, 1)))

\* the propagator after test_water(r, c)
test_water(p, x) ==
    IF Pinned(p, x) /\ p.hint_constraints[x] # SEA
    THEN [p EXCEPT !.contradiction = TRUE]
    ELSE FleetChecked(Propagate(PlaceSea([p EXCEPT !.dirty = <<>>], x)))

\* the cells that are EMPTY, in row-major order
EmptyCells(b) == SelectSeq(RowMajor(b.dimension), LAMBDA x : b.state[x] = EMPTY)

\* one pass of "for r, c in empties" of naked_water; acc = [board, deductions]
TrialShip(acc, x) ==
    LET snapshot == get_snapshot(acc.board)
    IN CHOOSE out \in
          {[board |-> restore_snapshot(p.board, snapshot),
            deductions |-> acc.deductions \o
                           (IF p.contradiction
                            THEN <<make_deduction(x[1], x[2], SEA, "T5.1", 5, 9)>>
                            ELSE <<>>)] :
             p \in {test_ship(IncrementalPropagator(acc.board), x)}} : TRUE

\* one pass of "for r, c in empties" of naked_ship
TrialWater(acc, x) ==
    LET snapshot == get_snapshot(acc.board)
    IN CHOOSE out \in
          {[board |-> restore_snapshot(p.board, snapshot),
            deductions |-> acc.deductions \o
                           (IF p.contradiction
                            THEN <<make_deduction(x[1], x[2], SHIP, "T5.2", 5, 9)>>
                            ELSE <<>>)] :
             p \in {test_water(IncrementalPropagator(acc.board), x)}} : TRUE

\* the loop "for r, c in empties" from the k-th cell on
RECURSIVE TrialShips(_, _, _)
TrialShips(empties, k, acc) ==
    IF k > Len(empties) THEN acc
    ELSE CHOOSE out \in {TrialShips(empties, k + 1, next) : next \in {TrialShip(acc, empties[k])}} : TRUE

RECURSIVE TrialWaters(_, _, _)
TrialWaters(empties, k, acc) ==
    IF k > Len(empties) THEN acc
    ELSE CHOOSE out \in {TrialWaters(empties, k + 1, next) : next \in {TrialWater(acc, empties[k])}} : TRUE

\* [board after the call, deductions returned]
naked_water(b) == TrialShips(EmptyCells(b), 1, [board |-> b, deductions |-> <<>>])

naked_ship(b) == TrialWaters(EmptyCells(b), 1, [board |-> b, deductions |-> <<>>])

----------------------------------------------------------------------------
(* rules.py: _propagate_basic *)

\* the default of the parameter max_iterations of _propagate_basic
PropagateIterations == 50

\* the board with the EMPTY cells of a line set to value
LineFilled(b, idx, is_row, value) ==
    [b EXCEPT !.state = Stored([x \in CellsOf(b.dimension) |->
        IF x \in Range(LineCells(b, idx, is_row)) /\ b.state[x] = EMPTY
        THEN value ELSE b.state[x]])]

\* "T1.2 Satisfied clue" of _propagate_basic, from the k-th line on
RECURSIVE SatisfiedPass(_, _)
SatisfiedPass(b, k) ==
    IF k > 2 * b.dimension THEN b
    ELSE LET idx == LinesInOrder(b.dimension)[k][1]
             is_row == LinesInOrder(b.dimension)[k][2]
         IN CHOOSE out \in
               {SatisfiedPass(next, k + 1) :
                  next \in {IF count_in_line(b, idx, is_row)[1] = get_clue(b, idx, is_row)
                            THEN LineFilled(b, idx, is_row, SEA) ELSE b}} : TRUE

\* "T1.3 Diagonal water" of _propagate_basic; the pass writes no SHIP, so the
\* cells it turns into SEA are the EMPTY cells with a SHIP on a diagonal
DiagonalPass(b) ==
    [b EXCEPT !.state = Stored([x \in CellsOf(b.dimension) |->
        IF b.state[x] = EMPTY /\
           \E k \in 1 .. Len(Neighbours(b, x, DIAGONAL)) :
              b.state[Neighbours(b, x, DIAGONAL)[k]] = SHIP
        THEN SEA ELSE b.state[x]])]

\* "for (dr, dc), expected in cell.hint_shape.items()" of T1.4 for the cell x,
\* from the j-th item on
RECURSIVE ShapeItems(_, _, _)
ShapeItems(b, x, j) ==
    IF j > Len(b.hint_shape[x]) THEN b
    ELSE LET y == <<x[1] + b.hint_shape[x][j][1][1], x[2] + b.hint_shape[x][j][1][2]>>
             expected == b.hint_shape[x][j][2]
         IN IF within_bounds(b, y[1], y[2]) /\ b.state[y] = EMPTY /\ expected \in {SHIP, SEA}
            THEN ShapeItems([b EXCEPT !.state[y] = expected], x, j + 1)
            ELSE ShapeItems(b, x, j + 1)

\* "T1.4 Hint shape deduction" of _propagate_basic, from the k-th cell on
RECURSIVE ShapePass(_, _)
ShapePass(b, k) ==
    IF k > b.dimension * b.dimension THEN b
    ELSE LET x == RowMajor(b.dimension)[k]
         IN CHOOSE out \in
               {ShapePass(next, k + 1) :
                  next \in {IF b.is_hint[x] /\ b.state[x] = SHIP /\ b.hint_shape[x] # NoShape
                            THEN ShapeItems(b, x, 1) ELSE b}} : TRUE

\* "T2.1 Exact fit" of _propagate_basic, from the k-th line on
RECURSIVE ExactFitPass(_, _)
ExactFitPass(b, k) ==
    IF k > 2 * b.dimension THEN b
    ELSE LET idx == LinesInOrder(b.dimension)[k][1]
             is_row == LinesInOrder(b.dimension)[k][2]
             counts == count_in_line(b, idx, is_row)
             needed == get_clue(b, idx, is_row) - counts[1]
         IN CHOOSE out \in
               {ExactFitPass(next, k + 1) :
                  next \in {IF needed > 0 /\ counts[2] = needed
                            THEN LineFilled(b, idx, is_row, SHIP) ELSE b}} : TRUE

\* the four checks at the end of an iteration of _propagate_basic
BasicChecks(b) ==
    /\ \A k \in 1 .. 2 * b.dimension :
          LET idx == LinesInOrder(b.dimension)[k][1]
              is_row == LinesInOrder(b.dimension)[k][2]
              counts == count_in_line(b, idx, is_row)
              clue == get_clue(b, idx, is_row)
          IN ~(counts[1] > clue \/ counts[1] + counts[2] < clue)
    /\ \A x \in CellsOf(b.dimension) :
          b.state[x] = SHIP =>
             \A k \in 1 .. Len(Neighbours(b, x, DIAGONAL)) :
                b.state[Neighbours(b, x, DIAGONAL)[k]] # SHIP
    /\ \A x \in CellsOf(b.dimension) :
          (b.is_hint[x] /\ b.state[x] = SHIP /\ b.hint_shape[x] # NoShape) =>
             \A j \in 1 .. Len(b.hint_shape[x]) :
                LET y == <<x[1] + b.hint_shape[x][j][1][1], x[2] + b.hint_shape[x][j][1][2]>>
                IN (within_bounds(b, y[1], y[2]) /\ b.state[y] # EMPTY) =>
                      b.state[y] = b.hint_shape[x][j][2]
    /\ is_fleet_consistent(b)

\* the iterations of _propagate_basic that are left: [board, consistent]
RECURSIVE PropagateBasicFrom(_, _)
PropagateBasicFrom(b, left) ==
    IF left = 0 THEN [board |-> b, consistent |-> TRUE]
    ELSE CHOOSE out \in
            {IF ~BasicChecks(next) THEN [board |-> next, consistent |-> FALSE]
             ELSE IF next.state = b.state THEN [board |-> next, consistent |-> TRUE]
             ELSE PropagateBasicFrom(next, left - 1) :
               next \in {ExactFitPass(ShapePass(DiagonalPass(SatisfiedPass(b, 1)), 1), 1)}} : TRUE

\* _propagate_basic(board): [board after the call, value returned]
propagate_basic(b) == PropagateBasicFrom(b, PropagateIterations)

----------------------------------------------------------------------------
(* rules.py: the registry *)

\* RULES: tier -> the technique ids in registration order
RULES == << <<"T1.1", "T1.2", "T1.3", "T1.4">>,
            <<"T2.1", "T2.4">>,
            <<"T3.1", "T3.3", "T3.4">>,
            <<"T4.1", "T4.2", "T4.3", "T4.4">>,
            <<"T5.1", "T5.2">> >>

Pure(b, ds) == [board |-> b, deductions |-> ds]

\* rule_func(self.board): the board after the call and the list returned
rule_func(technique_id, b) ==
    CASE technique_id = "T1.1" -> Pure(b, zero_clue(b))
      [] technique_id = "T1.2" -> Pure(b, satisfied_clue(b))
      [] technique_id = "T1.3" -> Pure(b, diagonal_water(b))
      [] technique_id = "T1.4" -> Pure(b, hint_shape_deduction(b))
      [] technique_id = "T2.1" -> Pure(b, exact_fit(b))
      [] technique_id = "T2.4" -> Pure(b, overflow_prevention(b))
      [] technique_id = "T3.1" -> Pure(b, forced_extension(b))
      [] technique_id = "T3.3" -> Pure(b, overlap_analysis(b))
      [] technique_id = "T3.4" -> Pure(b, three_blocked_sides(b))
      [] technique_id = "T4.1" -> Pure(b, gap_analysis(b))
      [] technique_id = "T4.2" -> Pure(b, fleet_exhaustion(b))
      [] technique_id = "T4.3" -> Pure(b, cap_ship(b))
      [] technique_id = "T4.4" -> Pure(b, prevent_long_join(b))
      [] technique_id = "T5.1" -> naked_water(b)
      [] technique_id = "T5.2" -> naked_ship(b)

----------------------------------------------------------------------------
(* solver.py *)

max_iterations == 1000

Triple(d) == <<d.row, d.col, d.value>>

\* a filter that lets every proposal through
filter_nothing(b, ds) == ds

\* _filter_diagonal_conflicts
filter_diagonal_conflicts(b, ds) ==
    LET ships == SelectSeq(ds, LAMBDA d : d.value = SHIP)
        ship_deductions == [k \in 1 .. Len(ships) |-> <<ships[k].row, ships[k].col>>]
        in_batch == {x \in Range(ship_deductions) :
                       \E i, j \in DOMAIN ship_deductions :
                          /\ i < j
                          /\ x \in {ship_deductions[i], ship_deductions[j]}
                          /\ Abs(ship_deductions[i][1] - ship_deductions[j][1]) = 1
                          /\ Abs(ship_deductions[i][2] - ship_deductions[j][2]) = 1}
        on_board == {x \in Range(ship_deductions) :
                       \E k \in 1 .. Len(Neighbours(b, x, DIAGONAL)) :
                          b.state[Neighbours(b, x, DIAGONAL)[k]] = SHIP}
        conflicts == in_batch \cup on_board
    IN IF ship_deductions = <<>> THEN ds
       ELSE SelectSeq(ds, LAMBDA d : d.value # SHIP \/ <<d.row, d.col>> \notin conflicts)

\* the new, filtered deductions of one rule of _apply_tier, and the board after the call
RuleBatch(b, applied, technique_id) ==
    CHOOSE out \in
       {[board |-> called.board,
         deductions |-> filter_diagonal_conflicts(called.board,
                           SelectSeq(called.deductions, LAMBDA d : Triple(d) \notin applied))] :
          called \in {rule_func(technique_id, b)}} : TRUE

\* _is_consistent
is_consistent(b) ==
    LET d == b.dimension
        expected(x, dir) ==
            LET hit == {k \in DOMAIN b.hint_shape[x] : b.hint_shape[x][k][1] = dir}
            IN IF hit = {} THEN {} ELSE {b.hint_shape[x][CHOOSE k \in hit : TRUE][2]}
    IN /\ \A idx \in Idx(d) :
            /\ ~(count_in_line(b, idx, TRUE)[1] > b.row_counts[idx])
            /\ ~(count_in_line(b, idx, FALSE)[1] > b.col_counts[idx])
       /\ \A x \in CellsOf(d) :
            b.state[x] = SHIP =>
               \A k \in 1 .. Len(Neighbours(b, x, DIAGONAL)) :
                  b.state[Neighbours(b, x, DIAGONAL)[k]] # SHIP
       /\ \A x \in CellsOf(d) :
            (b.is_hint[x] /\ b.state[x] = SHIP /\ b.hint_shape[x] # NoShape) =>
               \A k \in 1 .. Len(ORTHOGONAL) :
                  LET dir == ORTHOGONAL[k]
                      y == <<x[1] + dir[1], x[2] + dir[2]>>
                  IN (within_bounds(b, y[1], y[2]) /\ b.state[y] # EMPTY) =>
                        \A e \in expected(x, dir) : b.state[y] = e

\* a check of the clues that accepts every board
clues_satisfied_unchecked(b) == TRUE

\* _clues_satisfied
clues_satisfied(b) ==
    \A idx \in Idx(b.dimension) :
       /\ count_in_line(b, idx, TRUE)[1] = b.row_counts[idx]
       /\ count_in_line(b, idx, FALSE)[1] = b.col_counts[idx]

NoResult == [solved |-> FALSE, stuck |-> FALSE, valid |-> FALSE]

\* "while not self.board.is_solved() and iterations < max_iterations"
LoopHead ==
    /\ pc = "loop"
    /\ IF ~is_solved(board) /\ iterations < max_iterations
       THEN /\ iterations' = iterations + 1
            /\ progress' = FALSE
            /\ tier' = 1
            /\ rule_idx' = 1
            /\ pc' = "tier"
       ELSE /\ pc' = "after"
            /\ UNCHANGED <<iterations, progress, tier, rule_idx>>
    /\ UNCHANGED <<board, deductions, pending, inconsistent, techniques_used,
                   tier_usage, applied_cells, result, snap, entry>>

\* _apply_tier: the call of the next rule of the tier.  A non-empty batch is
\* returned to solve; after the last rule of tier 5 the for loop ends with
\* progress = False.
CallRule ==
    /\ pc = "tier"
    /\ \E batch \in {RuleBatch(board, applied_cells, RULES[tier][rule_idx])} :
          /\ board' = batch.board
          /\ IF batch.deductions # <<>>
             THEN /\ deductions' = batch.deductions
                  /\ pending' = batch.deductions
                  /\ pc' = "apply"
                  /\ UNCHANGED <<tier, rule_idx>>
             ELSE /\ UNCHANGED <<deductions, pending>>
                  /\ IF rule_idx < Len(RULES[tier])
                     THEN /\ rule_idx' = rule_idx + 1
                          /\ UNCHANGED <<tier, pc>>
                     ELSE IF tier < Len(RULES)
                     THEN /\ tier' = tier + 1
                          /\ rule_idx' = 1
                          /\ pc' = "tier"
                     ELSE /\ pc' = "after"
                          /\ UNCHANGED <<tier, rule_idx>>
    /\ UNCHANGED <<iterations, inconsistent, progress, techniques_used,
                   tier_usage, applied_cells, result, snap, entry>>

\* _apply_deductions: one pass of "for d in deductions"
ApplyDeduction ==
    /\ pc = "apply"
    /\ LET d == Head(pending)
       IN /\ board' = [board EXCEPT !.state[<<d.row, d.col>>] = d.value]
          /\ applied_cells' = applied_cells \cup {Triple(d)}
    /\ pending' = Tail(pending)
    /\ pc' = IF Tail(pending) = <<>> THEN "check" ELSE "apply"
    /\ UNCHANGED <<tier, rule_idx, deductions, iterations, inconsistent, progress,
                   techniques_used, tier_usage, result, snap, entry>>

\* a check that records the batch before it looks at the board
CheckConsistencyRecording ==
    /\ pc = "check"
    /\ techniques_used' = techniques_used \o deductions
    /\ IF ~is_consistent(board)
       THEN /\ inconsistent' = TRUE
            /\ pc' = "after"
            /\ UNCHANGED <<tier_usage, progress>>
       ELSE /\ tier_usage' = [tier_usage EXCEPT ![tier] = @ + 1]
            /\ progress' = TRUE
            /\ pc' = "loop"
            /\ UNCHANGED inconsistent
    /\ UNCHANGED <<board, tier, rule_idx, deductions, pending, iterations,
                   applied_cells, result, snap, entry>>

\* "if not self._is_consistent()" and what follows it in the for loop
CheckConsistency ==
    /\ pc = "check"
    /\ IF ~is_consistent(board)
       THEN /\ inconsistent' = TRUE
            /\ pc' = "after"
            /\ UNCHANGED <<tier_usage, techniques_used, progress>>
       ELSE /\ tier_usage' = [tier_usage EXCEPT ![tier] = @ + 1]
            /\ techniques_used' = techniques_used \o deductions
            /\ progress' = TRUE
            /\ pc' = "loop"
            /\ UNCHANGED inconsistent
    /\ UNCHANGED <<board, tier, rule_idx, deductions, pending, iterations,
                   applied_cells, result, snap, entry>>

\* the lines after the loop: the SolveResult
Return ==
    /\ pc = "after"
    /\ LET no_empty == is_solved(board)
           satisfied == IF no_empty THEN clues_satisfied(board) ELSE FALSE
           solved == no_empty /\ ~inconsistent /\ satisfied
           valid == solved /\ matches_solution(board)
       IN result' = [solved |-> solved, stuck |-> ~solved, valid |-> valid]
    /\ pc' = "done"
    /\ UNCHANGED <<board, tier, rule_idx, deductions, pending, iterations, inconsistent,
                   progress, techniques_used, tier_usage, applied_cells, snap, entry>>

----------------------------------------------------------------------------
(* puzzle_io.py *)

ORTHOGONAL_DIRS == << <<-1, 0>>, <<1, 0>>, <<0, -1>>, <<0, 1>> >>

\* "solution" absent from the puzzle
NoSolution == <<>>

\* _shape_to_hint_map: the values in the order of ORTHOGONAL_DIRS
ShapeValues(shape) ==
    CASE shape \in {"sub", "single"} -> <<SEA, SEA, SEA, SEA>>
      [] shape \in {"top", "bow", "up"} -> <<SEA, SHIP, SEA, SEA>>
      [] shape \in {"bot", "bottom", "down"} -> <<SHIP, SEA, SEA, SEA>>
      [] shape \in {"left"} -> <<SEA, SEA, SEA, SHIP>>
      [] shape \in {"right"} -> <<SEA, SEA, SHIP, SEA>>
      [] shape \in {"mid_h", "middle_h", "horizontal_mid"} -> <<SEA, SEA, SHIP, SHIP>>
      [] shape \in {"mid_v", "middle_v", "vertical_mid"} -> <<SHIP, SHIP, SEA, SEA>>
      [] OTHER -> <<>>

shape_to_hint_map(shape) ==
    LET values == ShapeValues(shape)
    IN IF shape = "" \/ values = <<>> THEN NoShape
       ELSE [k \in 1 .. 4 |-> <<ORTHOGONAL_DIRS[k], values[k]>>]

\* the loop "for hint in puzzle['initial_hints']" from the k-th hint on
RECURSIVE PlaceHints(_, _, _)
PlaceHints(b, puzzle, k) ==
    IF k > Len(puzzle.initial_hints) THEN b
    ELSE LET hint == puzzle.initial_hints[k]
             x == <<hint.r, hint.c>>
             from_solution ==
                 [j \in 1 .. 4 |->
                    <<ORTHOGONAL_DIRS[j],
                      get_solution_at(b, x[1] + ORTHOGONAL_DIRS[j][1],
                                         x[2] + ORTHOGONAL_DIRS[j][2])>>]
             shape == IF hint.val # SHIP THEN b.hint_shape[x]
                      ELSE IF puzzle.solution # NoSolution THEN from_solution
                      ELSE shape_to_hint_map(hint.shape)
         IN PlaceHints([b EXCEPT !.is_hint[x] = TRUE,
                                 !.state[x] = hint.val,
                                 !.hint_shape[x] = shape],
                       puzzle, k + 1)

build_board_from_puzzle(puzzle) ==
    LET fresh == NewBoard(Len(puzzle.clues.rows))
        clued == [fresh EXCEPT
                    !.row_counts = [i \in Idx(fresh.dimension) |-> puzzle.clues.rows[i + 1]],
                    !.col_counts = [i \in Idx(fresh.dimension) |-> puzzle.clues.cols[i + 1]]]
        solved == IF puzzle.solution # NoSolution
                  THEN [clued EXCEPT !.solution = [x \in CellsOf(fresh.dimension) |->
                                                     puzzle.solution[x[1] + 1][x[2] + 1]]]
                  ELSE clued
    IN PlaceHints(solved, puzzle, 1)

----------------------------------------------------------------------------
(* The puzzles that are explored *)

\* the sets of ship cells in which no two cells touch diagonally: the ships
\* are then straight runs no two of which touch
Grids(d) ==
    {S \in SUBSET CellsOf(d) :
        \A x \in S, y \in S : ~(Abs(x[1] - y[1]) = 1 /\ Abs(x[2] - y[2]) = 1)}

\* the rows of the solution in which exactly the cells of S are SHIP
GridOf(d, S) == [r \in 1 .. d |-> [c \in 1 .. d |->
                   IF <<r - 1, c - 1>> \in S THEN SHIP ELSE SEA]]

CluesOf(grid) ==
    [rows |-> [r \in DOMAIN grid |-> Cardinality({c \in DOMAIN grid : grid[r][c] = SHIP})],
     cols |-> [c \in DOMAIN grid |-> Cardinality({r \in DOMAIN grid : grid[r][c] = SHIP})]]

\* get_shape_name: the shape token of a ship cell of the grid
get_shape_name(S, x) ==
    LET n == <<x[1] - 1, x[2]>> \in S
        s == <<x[1] + 1, x[2]>> \in S
        w == <<x[1], x[2] - 1>> \in S
        e == <<x[1], x[2] + 1>> \in S
    IN IF (n /\ s) \/ (w /\ e) THEN "mid"
       ELSE IF s THEN "top"
       ELSE IF n THEN "bot"
       ELSE IF e THEN "left"
       ELSE IF w THEN "right"
       ELSE "sub"

\* the hint at the cell x of the grid: it reveals the cell or leaves it unknown
HintAt(S, x, known) ==
    [r |-> x[1], c |-> x[2],
     val |-> IF ~known THEN EMPTY ELSE IF x \in S THEN SHIP ELSE SEA,
     shape |-> IF x \in S THEN get_shape_name(S, x) ELSE ""]

\* a hint that reveals the cell x of the grid, or one that leaves it unknown
HintsAt(S, x) == {HintAt(S, x, known) : known \in BOOLEAN}

\* the choices of at most k hint cells in row-major order, each revealed or not
RECURSIVE HintPlans(_, _)
HintPlans(d, k) ==
    IF k = 0 THEN {<<>>}
    ELSE LET shorter == HintPlans(d, k - 1)
             after(hs) == IF hs = <<>> THEN CellsOf(d)
                          ELSE {x \in CellsOf(d) :
                                  x[1] * d + x[2] > hs[Len(hs)][1][1] * d + hs[Len(hs)][1][2]}
         IN shorter \cup
            UNION {{Append(hs, <<x, known>>) : x \in after(hs), known \in BOOLEAN} :
                     hs \in {z \in shorter : Len(z) = k - 1}}

\* the hints of a plan on the grid S
HintList(S, plan) ==
    IF plan = <<>> THEN <<>>
    ELSE [i \in 1 .. Len(plan) |-> HintAt(S, plan[i][1], plan[i][2])]

\* the lists of at most k hints, at distinct cells in row-major order
HintLists(d, S, k) == {HintList(S, plan) : plan \in HintPlans(d, k)}

\* the puzzle made from a grid, with or without its reference solution
PuzzleOf(d, S, hints, with_solution) ==
    [clues |-> CluesOf(GridOf(d, S)),
     solution |-> IF with_solution THEN GridOf(d, S) ELSE NoSolution,
     initial_hints |-> hints]

\* the puzzle with the clue of row r raised to the dimension
RaisedClue(puzzle, r) ==
    [puzzle EXCEPT !.clues.rows[r] = Len(puzzle.clues.rows)]

\* every grid of dimension Dim without hints, with its reference
PlainPuzzles == {PuzzleOf(Dim, S, <<>>, TRUE) : S \in Grids(Dim)}

\* every grid of dimension HintDim with at most MaxHints hints, with and
\* without its reference
HintedPuzzles ==
    {PuzzleOf(HintDim, q[1], HintList(q[1], q[2]), q[3]) :
        q \in Grids(HintDim) \X HintPlans(HintDim, MaxHints) \X BOOLEAN}

\* the plain puzzles of dimension HintDim with one row clue made impossible
ImpossiblePuzzles ==
    {RaisedClue(PuzzleOf(HintDim, q[1], <<>>, TRUE), q[2]) :
        q \in Grids(HintDim) \X (1 .. HintDim)}

\* the hints that leave the cells of T unknown, in row-major order
UnknownHintList(d, S, T) ==
    LET order == SelectSeq(RowMajor(d), LAMBDA x : x \in T)
    IN [k \in 1 .. Len(order) |-> HintAt(S, order[k], FALSE)]

\* every grid of dimension HintDim with UnknownHints hints that leave their
\* cells unknown, without its reference
UnknownHintPuzzles ==
    {PuzzleOf(HintDim, q[1], UnknownHintList(HintDim, q[1], q[2]), FALSE) :
        q \in Grids(HintDim) \X {U \in SUBSET CellsOf(HintDim) : Cardinality(U) = UnknownHints}}

\* the families of puzzles the solver is run on
Puzzles == <<PlainPuzzles, HintedPuzzles, ImpossiblePuzzles, UnknownHintPuzzles>>

----------------------------------------------------------------------------
(* TieredSolver(board).solve() on the board of a puzzle *)

Init ==
    /\ \E family \in DOMAIN Puzzles :
          \E puzzle \in Puzzles[family] : board = build_board_from_puzzle(puzzle)
    /\ entry = board
    /\ pc = "loop"
    /\ tier = 1
    /\ rule_idx = 1
    /\ deductions = <<>>
    /\ pending = <<>>
    /\ iterations = 0
    /\ inconsistent = FALSE
    /\ progress = FALSE
    /\ techniques_used = <<>>
    /\ tier_usage = [t \in 1 .. 5 |-> 0]
    /\ applied_cells = {}
    /\ result = NoResult
    /\ snap = <<>>

Next == LoopHead \/ CallRule \/ ApplyDeduction \/ CheckConsistency \/ Return

Spec == Init /\ [][Next]_vars

----------------------------------------------------------------------------
(* The end-to-end scenarios on boards of dimension ScenarioDim without hints:
   every clue 0, and one ship of a fleet length at the start of row 0 *)

AllZeroPuzzles == {PuzzleOf(ScenarioDim, {}, <<>>, with_solution) : with_solution \in BOOLEAN}

FullRowPuzzles ==
    {PuzzleOf(ScenarioDim, {<<0, c>> : c \in 0 .. (n - 1)}, <<>>, with_solution) :
        n \in Range(FLEET), with_solution \in BOOLEAN}

\* solve is called on the board of one of the puzzles
InitOn(puzzles) ==
    /\ \E puzzle \in puzzles : board = build_board_from_puzzle(puzzle)
    /\ entry = board
    /\ pc = "loop"
    /\ tier = 1
    /\ rule_idx = 1
    /\ deductions = <<>>
    /\ pending = <<>>
    /\ iterations = 0
    /\ inconsistent = FALSE
    /\ progress = FALSE
    /\ techniques_used = <<>>
    /\ tier_usage = [t \in 1 .. 5 |-> 0]
    /\ applied_cells = {}
    /\ result = NoResult
    /\ snap = <<>>

ScenarioInit == InitOn(AllZeroPuzzles \cup FullRowPuzzles)

ScenarioSpec == ScenarioInit /\ [][Next]_vars

\* the scenario of the impossible clue
ImpossibleInit == InitOn(ImpossiblePuzzles)

ImpossibleSpec == ImpossibleInit /\ [][Next]_vars

----------------------------------------------------------------------------
(* get_snapshot, changes of cell states, restore_snapshot; entry is the board
   as it was when the snapshot was taken *)

SnapInit ==
    /\ \E puzzle \in HintedPuzzles : board = build_board_from_puzzle(puzzle)
    /\ entry = board
    /\ pc = "built"
    /\ tier = 1
    /\ rule_idx = 1
    /\ deductions = <<>>
    /\ pending = <<>>
    /\ iterations = 0
    /\ inconsistent = FALSE
    /\ progress = FALSE
    /\ techniques_used = <<>>
    /\ tier_usage = [t \in 1 .. 5 |-> 0]
    /\ applied_cells = {}
    /\ result = NoResult
    /\ snap = <<>>

\* snapshot = board.get_snapshot()
TakeSnapshot ==
    /\ pc = "built"
    /\ snap' = get_snapshot(board)
    /\ entry' = board
    /\ pc' = "taken"
    /\ UNCHANGED <<board, tier, rule_idx, deductions, pending, iterations, inconsistent,
                   progress, techniques_used, tier_usage, applied_cells, result>>

\* board.cells[r][c].state = value, on at most MaxChanges cells
ChangeCell ==
    /\ pc = "taken"
    /\ Cardinality({x \in CellsOf(board.dimension) : board.state[x] # entry.state[x]}) < MaxChanges
    /\ \E x \in CellsOf(board.dimension), value \in CellState :
          /\ board.state[x] = entry.state[x]
          /\ value # board.state[x]
          /\ board' = [board EXCEPT !.state[x] = value]
    /\ UNCHANGED <<pc, snap, entry, tier, rule_idx, deductions, pending, iterations,
                   inconsistent, progress, techniques_used, tier_usage, applied_cells, result>>

\* board.restore_snapshot(snapshot)
RestoreSnapshot ==
    /\ pc = "taken"
    /\ board' = restore_snapshot(board, snap)
    /\ pc' = "restored"
    /\ UNCHANGED <<snap, entry, tier, rule_idx, deductions, pending, iterations, inconsistent,
                   progress, techniques_used, tier_usage, applied_cells, result>>

SnapNext == TakeSnapshot \/ ChangeCell \/ RestoreSnapshot

SnapSpec == SnapInit /\ [][SnapNext]_vars

----------------------------------------------------------------------------
(* The invariants of the data model, stated on a grid g: cell -> CellState *)

\* the straight segments of a board of dimension d: <<first cell, length, horizontal>>
Segments(d) ==
    {<<x, n, h>> \in CellsOf(d) \X (1 .. d) \X BOOLEAN :
        /\ (h => x[2] + n <= d)
        /\ (~h => x[1] + n <= d /\ n > 1)}

SegmentCells(seg) ==
    {IF seg[3] THEN <<seg[1][1], seg[1][2] + i>> ELSE <<seg[1][1] + i, seg[1][2]>> :
        i \in 0 .. (seg[2] - 1)}

OrthogonalOf(x) == {<<x[1] - 1, x[2]>>, <<x[1] + 1, x[2]>>, <<x[1], x[2] - 1>>, <<x[1], x[2] + 1>>}

\* a complete ship run: every cell SHIP, every orthogonal neighbour SEA or off the board
CompleteRun(g, seg) ==
    /\ \A x \in SegmentCells(seg) : g[x] = SHIP
    /\ \A x \in SegmentCells(seg) : \A y \in OrthogonalOf(x) \ SegmentCells(seg) :
          y \in DOMAIN g => g[y] = SEA

\* the multiset of the lengths of the complete runs is dominated by the fleet
FleetDominated(g, d) ==
    \A n \in 1 .. d :
       Cardinality({seg \in Segments(d) : seg[2] = n /\ CompleteRun(g, seg)}) <= CountOf(FLEET, n)

NoDiagonalContact(g) ==
    \A x \in DOMAIN g, y \in DOMAIN g :
       (g[x] = SHIP /\ g[y] = SHIP) => ~(Abs(x[1] - y[1]) = 1 /\ Abs(x[2] - y[2]) = 1)

\* every non-EMPTY neighbour that the shape map of a SHIP hint names agrees with the map
HintShapesRespected(b) ==
    \A x \in CellsOf(b.dimension) :
       (b.is_hint[x] /\ b.state[x] = SHIP) =>
          \A k \in DOMAIN b.hint_shape[x] :
             LET y == <<x[1] + b.hint_shape[x][k][1][1], x[2] + b.hint_shape[x][k][1][2]>>
             IN (y \in CellsOf(b.dimension) /\ b.state[y] # EMPTY) =>
                   b.state[y] = b.hint_shape[x][k][2]

ShipsInRow(g, d, r) == Cardinality({c \in Idx(d) : g[<<r, c>>] = SHIP})
ShipsInCol(g, d, c) == Cardinality({r \in Idx(d) : g[<<r, c>>] = SHIP})
EmptiesInRow(g, d, r) == Cardinality({c \in Idx(d) : g[<<r, c>>] = EMPTY})
EmptiesInCol(g, d, c) == Cardinality({r \in Idx(d) : g[<<r, c>>] = EMPTY})

CluesExact(b) ==
    \A i \in Idx(b.dimension) :
       /\ ShipsInRow(b.state, b.dimension, i) = b.row_counts[i]
       /\ ShipsInCol(b.state, b.dimension, i) = b.col_counts[i]

LineBounds(b) ==
    \A i \in Idx(b.dimension) :
       /\ ShipsInRow(b.state, b.dimension, i) <= b.row_counts[i]
       /\ ShipsInRow(b.state, b.dimension, i) + EmptiesInRow(b.state, b.dimension, i) >= b.row_counts[i]
       /\ ShipsInCol(b.state, b.dimension, i) <= b.col_counts[i]
       /\ ShipsInCol(b.state, b.dimension, i) + EmptiesInCol(b.state, b.dimension, i) >= b.col_counts[i]

HasReference(b) == \A x \in CellsOf(b.dimension) : b.solution[x] # EMPTY

\* a solvable board: the clues, the hints and the hint shapes are those of a
\* reference that satisfies the fleet and the no-touching rule
Solvable(b) ==
    /\ HasReference(b)
    /\ NoDiagonalContact(b.solution)
    /\ FleetDominated(b.solution, b.dimension)
    /\ \A i \in Idx(b.dimension) :
          /\ ShipsInRow(b.solution, b.dimension, i) = b.row_counts[i]
          /\ ShipsInCol(b.solution, b.dimension, i) = b.col_counts[i]
    /\ \A x \in CellsOf(b.dimension) :
          IF b.is_hint[x] THEN b.state[x] = b.solution[x] ELSE b.state[x] = EMPTY
    /\ \A x \in CellsOf(b.dimension) :
          \A k \in DOMAIN b.hint_shape[x] :
             LET y == <<x[1] + b.hint_shape[x][k][1][1], x[2] + b.hint_shape[x][k][1][2]>>
             IN b.hint_shape[x][k][2] = IF y \in CellsOf(b.dimension) THEN b.solution[y] ELSE SEA

\* no cell of the board contradicts the reference
AgreesWithReference(b) ==
    \A x \in CellsOf(b.dimension) : b.state[x] \in {EMPTY, b.solution[x]}

----------------------------------------------------------------------------
(* The fleet helpers of rules.py called on a board; result is what the call
   returned *)

\* the boards of dimension RunsDim in every combination of cell states
StateBoards ==
    {[NewBoard(RunsDim) EXCEPT !.state = g] : g \in [CellsOf(RunsDim) -> CellState]}

\* the boards of dimension FleetDim with SHIP on at most two straight segments
\* and SEA everywhere else
PlacedBoards ==
    {[NewBoard(FleetDim) EXCEPT !.state =
         Stored([x \in CellsOf(FleetDim) |->
            IF x \in SegmentCells(q[1]) \cup SegmentCells(q[2]) THEN SHIP ELSE SEA])] :
        q \in Segments(FleetDim) \X Segments(FleetDim)}

HelperInit ==
    /\ board \in StateBoards \cup PlacedBoards
    /\ entry = board
    /\ pc = "built"
    /\ tier = 1
    /\ rule_idx = 1
    /\ deductions = <<>>
    /\ pending = <<>>
    /\ iterations = 0
    /\ inconsistent = FALSE
    /\ progress = FALSE
    /\ techniques_used = <<>>
    /\ tier_usage = [t \in 1 .. 5 |-> 0]
    /\ applied_cells = {}
    /\ result = NoResult
    /\ snap = <<>>

\* runs = find_ship_runs(board)
CallFindShipRuns ==
    /\ pc = "built"
    /\ result' = find_ship_runs(board)
    /\ pc' = "runs"
    /\ UNCHANGED <<board, entry, tier, rule_idx, deductions, pending, iterations, inconsistent,
                   progress, techniques_used, tier_usage, applied_cells, snap>>

\* is_fleet_consistent(board)
CallIsFleetConsistent ==
    /\ pc = "built"
    /\ result' = is_fleet_consistent(board)
    /\ pc' = "fleet"
    /\ UNCHANGED <<board, entry, tier, rule_idx, deductions, pending, iterations, inconsistent,
                   progress, techniques_used, tier_usage, applied_cells, snap>>

HelperNext == CallFindShipRuns \/ CallIsFleetConsistent

HelperSpec == HelperInit /\ [][HelperNext]_vars

----------------------------------------------------------------------------
(* test_ship and naked_water called on a board that holds one battleship and
   one cell short of a second one *)

\* two segments that neither overlap nor touch
Apart(seg, other) ==
    \A x \in SegmentCells(seg), y \in SegmentCells(other) :
       Abs(x[1] - y[1]) > 1 \/ Abs(x[2] - y[2]) > 1

\* the segments as long as the longest ship of the fleet
Battleships(d) == {seg \in Segments(d) : seg[2] = MaxOf(Range(FLEET))}

\* the boards of dimension FleetDim with two battleships apart from each other,
\* one cell of the second still EMPTY, SEA everywhere else, and the clues of
\* the grid with both ships
TrialBoards ==
    {[NewBoard(FleetDim) EXCEPT
         !.state = Stored([x \in CellsOf(FleetDim) |->
                      IF x = q[3] THEN EMPTY
                      ELSE IF x \in SegmentCells(q[1]) \cup SegmentCells(q[2]) THEN SHIP
                      ELSE SEA]),
         !.row_counts = Stored([r \in Idx(FleetDim) |->
                      Cardinality({x \in SegmentCells(q[1]) \cup SegmentCells(q[2]) : x[1] = r})]),
         !.col_counts = Stored([c \in Idx(FleetDim) |->
                      Cardinality({x \in SegmentCells(q[1]) \cup SegmentCells(q[2]) : x[2] = c})])] :
        q \in {q \in Battleships(FleetDim) \X Battleships(FleetDim) \X CellsOf(FleetDim) :
                 Apart(q[1], q[2]) /\ q[3] \in SegmentCells(q[2])}}

TrialInit ==
    /\ board \in TrialBoards
    /\ entry = board
    /\ pc = "built"
    /\ tier = 1
    /\ rule_idx = 1
    /\ deductions = <<>>
    /\ pending = <<>>
    /\ iterations = 0
    /\ inconsistent = FALSE
    /\ progress = FALSE
    /\ techniques_used = <<>>
    /\ tier_usage = [t \in 1 .. 5 |-> 0]
    /\ applied_cells = {}
    /\ result = NoResult
    /\ snap = <<>>

\* prop = _IncrementalPropagator(board); prop.test_ship(r, c) on an EMPTY cell:
\* result is the cell and the value returned
CallTestShip ==
    /\ pc = "built"
    /\ \E x \in Range(EmptyCells(board)) :
          \E p \in {test_ship(IncrementalPropagator(board), x)} :
             /\ board' = p.board
             /\ result' = <<x, p.contradiction>>
    /\ pc' = "tested"
    /\ UNCHANGED <<entry, tier, rule_idx, deductions, pending, iterations, inconsistent,
                   progress, techniques_used, tier_usage, applied_cells, snap>>

\* naked_water(board): result is the list returned
CallNakedWater ==
    /\ pc = "built"
    /\ \E called \in {naked_water(board)} :
          /\ board' = called.board
          /\ result' = called.deductions
    /\ pc' = "naked"
    /\ UNCHANGED <<entry, tier, rule_idx, deductions, pending, iterations, inconsistent,
                   progress, techniques_used, tier_usage, applied_cells, snap>>

TrialNext == CallTestShip \/ CallNakedWater

TrialSpec == TrialInit /\ [][TrialNext]_vars

----------------------------------------------------------------------------
(* A registered rule called on a board *)

\* the clue of a line that holds ships SHIP cells and empties EMPTY cells: the
\* ships alone, or one more where a cell is EMPTY
ClueFor(ships, empties, slack) ==
    IF slack = 0 THEN ships
    ELSE ships + (IF empties > 0 THEN 1 ELSE 0)

\* the boards of dimension RunsDim with every cell in any state and clues that
\* the cells can still meet
ClueBoards ==
    {[NewBoard(RunsDim) EXCEPT
         !.state = q[1],
         !.row_counts = Stored([r \in Idx(RunsDim) |->
             ClueFor(Cardinality({x \in CellsOf(RunsDim) : x[1] = r /\ q[1][x] = SHIP}),
                     Cardinality({x \in CellsOf(RunsDim) : x[1] = r /\ q[1][x] = EMPTY}), q[2])]),
         !.col_counts = Stored([c \in Idx(RunsDim) |->
             ClueFor(Cardinality({x \in CellsOf(RunsDim) : x[2] = c /\ q[1][x] = SHIP}),
                     Cardinality({x \in CellsOf(RunsDim) : x[2] = c /\ q[1][x] = EMPTY}), q[2])])] :
        q \in [CellsOf(RunsDim) -> CellState] \X (0 .. 1)}

\* the cells of the first row and column, two apart, where the submarines sit
SubmarineSites == {x \in CellsOf(FleetDim) : (x[1] = 0 \/ x[2] = 0) /\ x[1] % 2 = 0 /\ x[2] % 2 = 0}

\* a block of cells that touches no submarine site
GapBlock == (2 .. 3) \X (2 .. 3)

\* the boards of dimension FleetDim with at least three submarines, EMPTY cells
\* in the block, SEA everywhere else, and the clues of a grid that has ships on
\* some of the EMPTY cells
GapBoards ==
    {[NewBoard(FleetDim) EXCEPT
         !.state = Stored([x \in CellsOf(FleetDim) |->
                      IF x \in q[1] THEN SHIP ELSE IF x \in q[2] THEN EMPTY ELSE SEA]),
         !.row_counts = Stored([r \in Idx(FleetDim) |->
                      Cardinality({x \in q[1] \cup q[3] : x[1] = r})]),
         !.col_counts = Stored([c \in Idx(FleetDim) |->
                      Cardinality({x \in q[1] \cup q[3] : x[2] = c})])] :
        q \in {q \in (SUBSET SubmarineSites) \X (SUBSET GapBlock) \X (SUBSET GapBlock) :
                 /\ Cardinality(q[1]) >= 3
                 /\ q[3] \subseteq q[2]
                 /\ \A x \in q[3], y \in q[3] :
                       ~(Abs(x[1] - y[1]) = 1 /\ Abs(x[2] - y[2]) = 1)}}

\* a board with clues, or the board of a puzzle with hints
RuleInit ==
    /\ \/ board \in ClueBoards
       \/ board \in GapBoards
       \/ \E puzzle \in HintedPuzzles : board = build_board_from_puzzle(puzzle)
    /\ entry = board
    /\ pc = "built"
    /\ tier = 1
    /\ rule_idx = 1
    /\ deductions = <<>>
    /\ pending = <<>>
    /\ iterations = 0
    /\ inconsistent = FALSE
    /\ progress = FALSE
    /\ techniques_used = <<>>
    /\ tier_usage = [t \in 1 .. 5 |-> 0]
    /\ applied_cells = {}
    /\ result = NoResult
    /\ snap = <<>>

\* rule_func(board) for one registered rule: deductions is the list returned
CallRegisteredRule ==
    /\ pc = "built"
    /\ \E t \in DOMAIN RULES :
          \E i \in DOMAIN RULES[t] :
             \E called \in {rule_func(RULES[t][i], board)} :
                /\ board' = called.board
                /\ deductions' = called.deductions
                /\ tier' = t
                /\ rule_idx' = i
    /\ pc' = "called"
    /\ UNCHANGED <<entry, pending, iterations, inconsistent, progress, techniques_used,
                   tier_usage, applied_cells, result, snap>>

RuleNext == CallRegisteredRule

RuleSpec == RuleInit /\ [][RuleNext]_vars

----------------------------------------------------------------------------
(* _filter_diagonal_conflicts called on a batch *)

\* the proposals a rule can make on a board of dimension d
Proposals(d) ==
    {make_deduction(q[1][1], q[1][2], q[2], "T3.3", 3, 5) : q \in CellsOf(d) \X {SEA, SHIP}}

\* the batches of at most n proposals
Batches(d, n) == UNION {[1 .. k -> Proposals(d)] : k \in 0 .. n}

FilterBoards ==
    {[NewBoard(FilterDim) EXCEPT !.state = g] : g \in [CellsOf(FilterDim) -> CellState]}

FilterInit ==
    /\ board \in FilterBoards
    /\ entry = board
    /\ pending \in Batches(FilterDim, MaxBatch)
    /\ pc = "built"
    /\ tier = 1
    /\ rule_idx = 1
    /\ deductions = <<>>
    /\ iterations = 0
    /\ inconsistent = FALSE
    /\ progress = FALSE
    /\ techniques_used = <<>>
    /\ tier_usage = [t \in 1 .. 5 |-> 0]
    /\ applied_cells = {}
    /\ result = NoResult
    /\ snap = <<>>

\* new_deductions = self._filter_diagonal_conflicts(new_deductions)
CallFilterDiagonalConflicts ==
    /\ pc = "built"
    /\ deductions' = filter_diagonal_conflicts(board, pending)
    /\ pc' = "filtered"
    /\ UNCHANGED <<board, entry, pending, tier, rule_idx, iterations, inconsistent, progress,
                   techniques_used, tier_usage, applied_cells, result, snap>>

FilterNext == CallFilterDiagonalConflicts

FilterSpec == FilterInit /\ [][FilterNext]_vars

----------------------------------------------------------------------------
(* _IncrementalPropagator: construction, test_ship and test_water one pass of
   the worklist loop at a time. result holds the propagator, the cell and the
   value of the trial; board is the board the propagator works on; entry is
   the board the propagator was constructed on *)

\* the boards of TrialBoards, with the SEA cells of at most one row EMPTY
OpenBoards ==
    {[q[1] EXCEPT !.state = Stored([x \in CellsOf(FleetDim) |->
                     IF x[1] = q[2] /\ q[1].state[x] = SEA THEN EMPTY ELSE q[1].state[x]])] :
        q \in TrialBoards \X (0 .. FleetDim)}

PropagatorInit ==
    /\ \/ board \in OpenBoards
       \/ \E puzzle \in HintedPuzzles : board = build_board_from_puzzle(puzzle)
       \/ \E puzzle \in AllZeroPuzzles : board = build_board_from_puzzle(puzzle)
    /\ entry = board
    /\ pc = "built"
    /\ tier = 1
    /\ rule_idx = 1
    /\ deductions = <<>>
    /\ pending = <<>>
    /\ iterations = 0
    /\ inconsistent = FALSE
    /\ progress = FALSE
    /\ techniques_used = <<>>
    /\ tier_usage = [t \in 1 .. 5 |-> 0]
    /\ applied_cells = {}
    /\ result = NoResult
    /\ snap = <<>>

\* prop.test_ship(r, c) on an EMPTY cell of a board, with
\* prop = _IncrementalPropagator(board), up to the worklist loop
BeginTestShip ==
    /\ pc = "built"
    /\ \E x \in Range(EmptyCells(board)) :
          \E p \in {IncrementalPropagator(board)} :
             IF Pinned(p, x) /\ p.hint_constraints[x] # SHIP
             THEN /\ result' = [prop |-> [p EXCEPT !.contradiction = TRUE],
                                cell |-> x, value |-> SHIP]
                  /\ pc' = "returned"
                  /\ UNCHANGED board
             ELSE \E q \in {DiagonalSea(PlaceShip([p EXCEPT !.dirty = <<>>], x), x, 1)} :
                     /\ result' = [prop |-> q, cell |-> x, value |-> SHIP]
                     /\ board' = q.board
                     /\ pc' = "worklist"
    /\ UNCHANGED <<entry, tier, rule_idx, deductions, pending, iterations, inconsistent,
                   progress, techniques_used, tier_usage, applied_cells, snap>>

\* prop.test_water(r, c) on an EMPTY cell, up to the worklist loop
BeginTestWater ==
    /\ pc = "built"
    /\ \E x \in Range(EmptyCells(board)) :
          \E p \in {IncrementalPropagator(board)} :
             IF Pinned(p, x) /\ p.hint_constraints[x] # SEA
             THEN /\ result' = [prop |-> [p EXCEPT !.contradiction = TRUE],
                                cell |-> x, value |-> SEA]
                  /\ pc' = "returned"
                  /\ UNCHANGED board
             ELSE \E q \in {PlaceSea([p EXCEPT !.dirty = <<>>], x)} :
                     /\ result' = [prop |-> q, cell |-> x, value |-> SEA]
                     /\ board' = q.board
                     /\ pc' = "worklist"
    /\ UNCHANGED <<entry, tier, rule_idx, deductions, pending, iterations, inconsistent,
                   progress, techniques_used, tier_usage, applied_cells, snap>>

\* "while dirty and not contradiction and steps < 200"
Working(p) == p.dirty # <<>> /\ ~p.contradiction /\ p.steps < PropagatorCap

\* one pass of the worklist loop
PopLine ==
    /\ pc = "worklist"
    /\ Working(result.prop)
    /\ \E q \in {PropagateLine(result.prop)} :
          /\ result' = [result EXCEPT !.prop = q]
          /\ board' = q.board
    /\ UNCHANGED <<pc, entry, tier, rule_idx, deductions, pending, iterations, inconsistent,
                   progress, techniques_used, tier_usage, applied_cells, snap>>

\* the worklist loop has ended: "Check fleet consistency" and return
EndTrial ==
    /\ pc = "worklist"
    /\ ~Working(result.prop)
    /\ result' = [result EXCEPT !.prop = FleetChecked(result.prop)]
    /\ pc' = "returned"
    /\ UNCHANGED <<board, entry, tier, rule_idx, deductions, pending, iterations,
                   inconsistent, progress, techniques_used, tier_usage, applied_cells, snap>>

PropagatorNext == BeginTestShip \/ BeginTestWater \/ PopLine \/ EndTrial

PropagatorSpec == PropagatorInit /\ [][PropagatorNext]_vars

----------------------------------------------------------------------------
(* Claims *)

\* C1: started on a solvable board, after every outer iteration every cell of
\* the board is EMPTY or has its reference state: no applied deduction
\* contradicts the reference.
Soundness ==
    (pc = "loop" /\ Solvable(entry)) => AgreesWithReference(board)

\* C2: solve returns solved = true if and only if the final board has no EMPTY
\* cell, every clue is exactly satisfied, no two SHIP cells touch diagonally,
\* the hint shapes are respected and the complete runs are dominated by the fleet.
SolvedIffComplete ==
    pc = "done" =>
       (result.solved <=>
           /\ count_empty(board) = 0
           /\ CluesExact(board)
           /\ NoDiagonalContact(board.state)
           /\ HintShapesRespected(board)
           /\ FleetDominated(board.state, board.dimension))

\* C3: valid is true exactly when solved is true and the final grid equals the
\* reference; on a board built without a reference, valid equals solved.
ValidFlag ==
    pc = "done" =>
       IF HasReference(board)
       THEN result.valid <=> (result.solved /\ \A x \in CellsOf(board.dimension) :
                                                   board.state[x] = board.solution[x])
       ELSE result.valid = result.solved

\* C4: after every batch that the driver applies and whose consistency check
\* returns true, the board satisfies the four invariants of the data model:
\* the line bounds, no diagonal contact, the hint shapes, the fleet.
InvariantPreservation ==
    (pc = "loop" /\ progress) =>
       /\ LineBounds(board)
       /\ NoDiagonalContact(board.state)
       /\ HintShapesRespected(board)
       /\ FleetDominated(board.state, board.dimension)

\* C5: the target cell of every deduction that the driver applies is EMPTY
\* immediately before the deduction is written.
Monotonicity ==
    pc = "apply" => board.state[<<Head(pending).row, Head(pending).col>>] = EMPTY

\* C6: the number of deductions recorded in techniques_used is at most
\* dimension squared.
DeductionCount ==
    Len(techniques_used) <= board.dimension * board.dimension

\* C7: each batch that the driver applies strictly decreases the number of
\* EMPTY cells: when _apply_deductions begins, a cell that the batch writes is
\* EMPTY.
BatchDecreases ==
    (pc = "apply" /\ Len(pending) = Len(deductions)) =>
        \E k \in DOMAIN pending :
            board.state[<<pending[k].row, pending[k].col>>] = EMPTY

\* C7, its consequence for the loop: at most E + 1 iterations, E the number of
\* EMPTY cells at entry, and the iteration cap is never reached.
IterationBound ==
    /\ iterations <= count_empty(entry) + 1
    /\ iterations < max_iterations

\* C8: get_snapshot, then changes of cell states, then restore_snapshot gives
\* back the state and the is_hint flag that every cell had when the snapshot
\* was taken, and leaves every hint-shape map unchanged.
SnapshotRoundTrip ==
    pc = "restored" =>
       /\ board.state = entry.state
       /\ board.is_hint = entry.is_hint
       /\ board.hint_shape = entry.hint_shape

\* C9: when a tier-5 rule returns, the state and the is_hint flag of every
\* cell are what they were when the rule was called.
RulesDoNotChangeBoard ==
    [][(pc = "tier" /\ tier = 5) =>
          (board'.state = board.state /\ board'.is_hint = board.is_hint)]_vars

\* the board has every clue 0 and no hint
AllZero(b) ==
    /\ \A i \in Idx(b.dimension) : b.row_counts[i] = 0 /\ b.col_counts[i] = 0
    /\ \A x \in CellsOf(b.dimension) : ~b.is_hint[x]

\* C11: on a board with every clue 0 and no hint, solve returns solved = true,
\* every cell is SEA, and techniques_used holds only T1.1 deductions, exactly
\* one per cell.
AllZeroScenario ==
    (pc = "done" /\ AllZero(entry)) =>
       /\ result.solved
       /\ \A x \in CellsOf(board.dimension) : board.state[x] = SEA
       /\ \A k \in DOMAIN techniques_used : techniques_used[k].technique = "T1.1"
       /\ Len(techniques_used) = board.dimension * board.dimension

\* the board has no hint, a clue n in row 0 and 0 in the other rows, a clue 1
\* in the first n columns and 0 in the other columns
FullRow(b, n) ==
    /\ \A i \in Idx(b.dimension) :
          /\ b.row_counts[i] = IF i = 0 THEN n ELSE 0
          /\ b.col_counts[i] = IF i < n THEN 1 ELSE 0
    /\ \A x \in CellsOf(b.dimension) : ~b.is_hint[x]

\* the technique identifiers of a list of deductions, a run of equal ones
\* counted once
BatchTechniques(ts) ==
    LET starts == SelectSeq([k \in 1 .. Len(ts) |-> k],
                            LAMBDA k : k = 1 \/ ts[k].technique # ts[k - 1].technique)
    IN [i \in 1 .. Len(starts) |-> ts[starts[i]].technique]

\* solved = true with SHIP in the first n cells of row 0 and SEA elsewhere
FullRowSolved(n) ==
    /\ result.solved
    /\ \A x \in CellsOf(board.dimension) :
          board.state[x] = IF x[1] = 0 /\ x[2] < n THEN SHIP ELSE SEA

\* C12, as the code has it: in the full-row scenario solve returns solved =
\* true with SHIP in the first cells of row 0 and SEA everywhere else, and the
\* applied batches are one of T1.1, then one of T2.1, and no other.
FullRowScenario ==
    \A n \in Range(FLEET) :
       (pc = "done" /\ FullRow(entry, n)) =>
          /\ FullRowSolved(n)
          /\ BatchTechniques(techniques_used) = <<"T1.1", "T2.1">>
          /\ tier_usage = [t \in 1 .. 5 |-> IF t <= 2 THEN 1 ELSE 0]

\* the full-row scenario with the battleship has been solved
FullRowScenarioWitness ==
    /\ pc = "done"
    /\ FullRow(entry, MaxOf(Range(FLEET)))
    /\ result.solved
    /\ Len(techniques_used) > 0

\* C12, as the spec has it: the applied batches come in the order T1.1, then
\* T2.1, then T1.2 or T1.3.
FullRowThenTierOne ==
    \A n \in Range(FLEET) :
       (pc = "done" /\ FullRow(entry, n)) =>
          /\ FullRowSolved(n)
          /\ LET batches == BatchTechniques(techniques_used)
             IN /\ Len(batches) >= 3
                /\ batches[1] = "T1.1"
                /\ batches[2] = "T2.1"
                /\ \A k \in 3 .. Len(batches) : batches[k] \in {"T1.2", "T1.3"}

\* the sum of the values of f on the set D
RECURSIVE SumOver(_, _)
SumOver(f, D) ==
    IF D = {} THEN 0
    ELSE LET i == CHOOSE j \in D : TRUE IN f[i] + SumOver(f, D \ {i})

\* a row clue is the dimension, and the row clues and the column clues can no
\* longer all be met: their sums differ
ClueRaised(b) ==
    /\ \E r \in Idx(b.dimension) : b.row_counts[r] = b.dimension
    /\ SumOver(b.row_counts, Idx(b.dimension)) # SumOver(b.col_counts, Idx(b.dimension))

\* C13: on a puzzle with one row clue raised to the dimension, so that the
\* clues can no longer all be met, solve returns solved = false and valid =
\* false, ending stuck or inconsistent.
ImpossibleClue ==
    (pc = "done" /\ ClueRaised(entry)) =>
       /\ ~result.solved
       /\ ~result.valid
       /\ (result.stuck \/ inconsistent)

\* solve has returned on such a puzzle after it applied deductions
ImpossibleClueWitness ==
    /\ pc = "done"
    /\ ClueRaised(entry)
    /\ result.stuck
    /\ techniques_used # <<>>

\* a complete ship run of the grid g: a straight segment of SHIP cells with SEA
\* or the edge before its first and after its last cell; a single cell, with
\* SEA or the edge on its four sides
BoundedRun(g, seg) ==
    LET cells == SegmentCells(seg)
        step == IF seg[3] THEN <<0, 1>> ELSE <<1, 0>>
        before == <<seg[1][1] - step[1], seg[1][2] - step[2]>>
        after == <<seg[1][1] + seg[2] * step[1], seg[1][2] + seg[2] * step[2]>>
    IN /\ \A x \in cells : g[x] = SHIP
       /\ before \in DOMAIN g => g[before] = SEA
       /\ after \in DOMAIN g => g[after] = SEA
       /\ seg[2] = 1 => \A y \in OrthogonalOf(seg[1]) : y \in DOMAIN g => g[y] = SEA

\* the entries of the list runs that report the segment
ReportsOf(runs, seg) ==
    {k \in DOMAIN runs : runs[k][1] = seg[2] /\ Range(runs[k][2]) = SegmentCells(seg)}

\* C14: find_ship_runs returns every complete ship run of the board exactly
\* once with its length, and nothing else.
FindShipRunsComplete ==
    pc = "runs" =>
       /\ \A seg \in Segments(board.dimension) :
             BoundedRun(board.state, seg) => Cardinality(ReportsOf(result, seg)) = 1
       /\ \A k \in DOMAIN result :
             \E seg \in Segments(board.dimension) :
                BoundedRun(board.state, seg) /\ k \in ReportsOf(result, seg)

\* the complete runs of the grid fit the fleet: none is longer than the longest
\* ship, and no length occurs more often than in the fleet
FleetFits(g, d) ==
    \A n \in 1 .. d :
       LET placed == Cardinality({seg \in Segments(d) : seg[2] = n /\ BoundedRun(g, seg)})
       IN /\ (placed > 0 => n <= MaxOf(Range(FLEET)))
          /\ placed <= CountOf(FLEET, n)

\* C15: is_fleet_consistent(board) is true if and only if no complete ship run
\* is longer than the longest fleet ship and, for every length, the number of
\* complete runs of that length is at most its number in the fleet.
FleetConsistentIff ==
    pc = "fleet" => (result <=> FleetFits(board.state, board.dimension))

\* the board holds one complete battleship, the cell x is EMPTY, and SHIP at x
\* completes a second one
SecondBattleship(b, x) ==
    LET longest == MaxOf(Range(FLEET))
        placed == [b.state EXCEPT ![x] = SHIP]
    IN /\ b.state[x] = EMPTY
       /\ \E seg \in Segments(b.dimension), other \in Segments(b.dimension) :
             /\ seg[2] = longest /\ other[2] = longest /\ seg # other
             /\ BoundedRun(b.state, seg)
             /\ x \in SegmentCells(other)
             /\ BoundedRun(placed, other)

\* C16: on a board that holds one complete battleship, if SHIP at an EMPTY
\* cell completes a second one, horizontal or vertical, test_ship reports a
\* contradiction for that cell and naked_water emits SEA for it.
SecondBattleshipRefused ==
    /\ (pc = "tested" /\ SecondBattleship(entry, result[1])) => result[2]
    /\ pc = "naked" =>
          \A x \in CellsOf(entry.dimension) :
             SecondBattleship(entry, x) =>
                \E k \in DOMAIN result :
                   /\ result[k].row = x[1] /\ result[k].col = x[2]
                   /\ result[k].value = SEA /\ result[k].technique = "T5.1"

\* every deduction of the batch that is the last one for its cell is on the board
BatchOnBoard(b, batch) ==
    \A k \in DOMAIN batch :
       (\A j \in DOMAIN batch :
           (j > k) => (batch[j].row # batch[k].row \/ batch[j].col # batch[k].col))
          => b.state[<<batch[k].row, batch[k].col>>] = batch[k].value

\* C17: when the consistency check fails after a batch has been applied, solve
\* stops and returns solved = false and stuck = true; the board keeps the state
\* it had right after the batch was applied, and techniques_used keeps every
\* deduction recorded before that batch.
InconsistentStop ==
    /\ [](pc = "check" => BatchOnBoard(board, deductions))
    /\ []((inconsistent /\ pc = "done") =>
             (~result.solved /\ result.stuck /\ BatchOnBoard(board, deductions)))
    /\ [][(pc = "check" /\ ~is_consistent(board)) =>
             (/\ inconsistent' /\ pc' = "after"
              /\ board' = board /\ techniques_used' = techniques_used)]_vars
    /\ [][inconsistent =>
             (pc' = "done" /\ board' = board /\ techniques_used' = techniques_used)]_vars

\* a run that recorded deductions and then ended by a failed consistency check
InconsistentStopWitness ==
    /\ pc = "done"
    /\ inconsistent
    /\ techniques_used # <<>>
    /\ board # entry
    /\ ~is_consistent(board)

\* a deduction for the cell x with the value the cell has on the board b
Recorded(ts, b, x) ==
    \E k \in DOMAIN ts :
       /\ ts[k].row = x[1] /\ ts[k].col = x[2]
       /\ ts[k].value = b.state[x]

\* C18: between two batches and at return, also after a failed consistency
\* check, a cell differs from the board solve was given if and only if
\* techniques_used holds a deduction for that cell with its current value.
TrailIsApplied ==
    pc \in {"loop", "after", "done"} =>
       \A x \in CellsOf(board.dimension) :
          (board.state[x] # entry.state[x]) <=> Recorded(techniques_used, board, x)

\* the positions <<tier, index>> of RULES, and those before <<t, i>>
RulePositions == {q \in (DOMAIN RULES) \X (1 .. 4) : q[2] \in DOMAIN RULES[q[1]]}

EarlierRules(t, i) == {q \in RulePositions : q[1] < t \/ (q[1] = t /\ q[2] < i)}

\* the rule called after the one at <<t, i>> when that one returned nothing new
NextRule(t, i) == IF i < Len(RULES[t]) THEN <<t, i + 1>> ELSE <<t + 1, 1>>

\* the technique identifiers in the order the rules are called
RegistrationOrder == RULES[1] \o RULES[2] \o RULES[3] \o RULES[4] \o RULES[5]

\* the batch solve received from _apply_tier is the one of the rule at
\* <<tier, rule_idx>>: not empty, one technique, and no earlier rule has a new
\* proposal left after filtering on this board
FirstBatch ==
    (pc = "apply" /\ pending = deductions) =>
       /\ deductions # <<>>
       /\ \A k \in DOMAIN deductions : deductions[k].technique = RULES[tier][rule_idx]
       /\ \A q \in EarlierRules(tier, rule_idx) :
             RuleBatch(board, applied_cells, RULES[q[1]][q[2]]).deductions = <<>>

\* C19: in every outer iteration the rules are called tier by tier from 1 to 5
\* and in registration order inside a tier; only the batch of the first rule
\* with new proposals left after filtering is applied, and the driver then
\* starts again at tier 1; so a batch is applied only if no earlier rule had a
\* new, non-conflicting proposal on that board, and it has one technique.
TierOrder ==
    /\ [](RegistrationOrder = <<"T1.1", "T1.2", "T1.3", "T1.4", "T2.1", "T2.4", "T3.1", "T3.3",
                               "T3.4", "T4.1", "T4.2", "T4.3", "T4.4", "T5.1", "T5.2">>)
    /\ []FirstBatch
    /\ [][(pc = "loop" /\ pc' = "tier") => (tier' = 1 /\ rule_idx' = 1)]_vars
    /\ [][(pc = "tier" /\ pc' = "tier") => (<<tier', rule_idx'>> = NextRule(tier, rule_idx))]_vars
    /\ [][(pc = "tier" /\ pc' = "after") => (tier = 5 /\ rule_idx = Len(RULES[5]))]_vars
    /\ [][(pc = "tier" /\ pc' = "apply") =>
             (tier' = tier /\ rule_idx' = rule_idx /\ pending' = deductions')]_vars
    /\ [][(pc = "apply") =>
             (board'.state = [board.state EXCEPT ![<<Head(pending).row, Head(pending).col>>]
                                                   = Head(pending).value])]_vars
    /\ [][(pc = "check" /\ ~inconsistent') => pc' = "loop"]_vars

DiagonalPair(x, y) == Abs(x[1] - y[1]) = 1 /\ Abs(x[2] - y[2]) = 1

\* the SHIP proposal at index k of the batch touches diagonally another SHIP
\* proposal of the batch or a SHIP cell of the board
Conflicting(b, batch, k) ==
    /\ batch[k].value = SHIP
    /\ \/ \E j \in DOMAIN batch :
             /\ j # k
             /\ batch[j].value = SHIP
             /\ DiagonalPair(<<batch[k].row, batch[k].col>>, <<batch[j].row, batch[j].col>>)
       \/ \E y \in CellsOf(b.dimension) :
             /\ b.state[y] = SHIP
             /\ DiagonalPair(<<batch[k].row, batch[k].col>>, y)

\* the indices of the batch that are kept, in increasing order
KeptIndices(b, batch) ==
    SelectSeq([k \in DOMAIN batch |-> k], LAMBDA k : ~Conflicting(b, batch, k))

\* C21: _filter_diagonal_conflicts returns the batch in its original order
\* without the SHIP proposals that touch diagonally another SHIP proposal of
\* the batch (both of the pair go) or a SHIP cell of the board; every SEA
\* proposal is kept.
FilterRemovesConflicts ==
    pc = "filtered" =>
       /\ Len(deductions) = Len(KeptIndices(board, pending))
       /\ \A k \in DOMAIN deductions : deductions[k] = pending[KeptIndices(board, pending)[k]]
       /\ \A k \in DOMAIN pending :
             pending[k].value = SEA => (\E j \in DOMAIN deductions : deductions[j] = pending[k])

\* a batch of three proposals lost a pair of SHIP proposals that touch each
\* other and kept the third
FilterRemovesConflictsWitness ==
    /\ pc = "filtered"
    /\ Len(pending) = 3
    /\ Len(deductions) = 1
    /\ \A y \in CellsOf(board.dimension) : board.state[y] # SHIP
    /\ \E i, j \in DOMAIN pending : i # j /\ Conflicting(board, pending, i) /\ Conflicting(board, pending, j)

\* C22: if no two SHIP cells touch diagonally on the board given to solve, none
\* do on the board after any batch the driver applies (nor at any other moment
\* of the solve), so the diagonal part of the consistency check never fails.
NoDiagonalContactKept ==
    NoDiagonalContact(entry.state) => NoDiagonalContact(board.state)

\* the consistency check runs on a board to which the driver added a SHIP next
\* to others
NoDiagonalContactKeptWitness ==
    /\ pc = "check"
    /\ NoDiagonalContact(entry.state)
    /\ \E k \in DOMAIN deductions : deductions[k].value = SHIP
    /\ Cardinality({x \in CellsOf(board.dimension) : board.state[x] = SHIP}) >= 3
    /\ techniques_used # <<>>

\* the cell states of the finished grid whose SHIP cells are exactly S
FullState(d, S) == [x \in CellsOf(d) |-> IF x \in S THEN SHIP ELSE SEA]

\* the finished grids the board can be completed to: they keep every SHIP and
\* SEA cell of the board, meet every clue, have no diagonal contact, respect
\* the hint shapes and hold no more ships of a length than the fleet
Completions(b) ==
    {S \in {{x \in CellsOf(b.dimension) : b.state[x] = SHIP} \cup T :
               T \in SUBSET {x \in CellsOf(b.dimension) : b.state[x] = EMPTY}} :
        /\ NoDiagonalContact(FullState(b.dimension, S))
        /\ \A i \in Idx(b.dimension) :
              /\ Cardinality({x \in S : x[1] = i}) = b.row_counts[i]
              /\ Cardinality({x \in S : x[2] = i}) = b.col_counts[i]
        /\ HintShapesRespected([b EXCEPT !.state = FullState(b.dimension, S)])
        /\ FleetDominated(FullState(b.dimension, S), b.dimension)}

\* the rule with the given identifier was called and every SHIP (resp. SEA) it
\* proposes is SHIP (resp. SEA) in every completion of the board it was called on
SoundCall(technique_id) ==
    (pc = "called" /\ RULES[tier][rule_idx] = technique_id) =>
       LET completions == Completions(entry)
       IN \A k \in DOMAIN deductions :
             \A S \in completions :
                (deductions[k].value = SHIP) <=> (<<deductions[k].row, deductions[k].col>> \in S)

\* C23: on a board that can be completed to a valid grid, every SHIP that
\* overlap_analysis proposes is SHIP in every such completion, also when the
\* ships still needed in the line may be separate ships.
OverlapSound == SoundCall("T3.3")

\* C24: on a board that can be completed to a valid grid, every SHIP proposed
\* by forced_extension or three_blocked_sides is SHIP in every completion, also
\* for a lone SHIP cell with one EMPTY side and for the end of a finished ship.
ExtensionSound == SoundCall("T3.1") /\ SoundCall("T3.4")

\* C25: on a board that can be completed to a valid grid, every cell for which
\* gap_analysis proposes SEA is SEA in every completion, also when the cell
\* could belong to a ship lying on the other axis.
GapSound == SoundCall("T4.1")

\* C26: naked_water proposes SEA for a cell only if no completion of the board
\* has SHIP there, and naked_ship proposes SHIP only if no completion has SEA
\* there.
TrialSound == SoundCall("T5.1") /\ SoundCall("T5.2")

\* the board of the trial: the board the propagator was constructed on, with
\* the value of the trial in the cell of the trial
TrialBoard == [entry EXCEPT !.state[result.cell] = result.value]

\* C27: when the incremental propagator reports a contradiction for a trial
\* placement, _propagate_basic returns inconsistent on the same board with
\* the same trial placement
PropagatorsAgree ==
    (pc = "returned" /\ result.prop.contradiction) => ~propagate_basic(TrialBoard).consistent

ChangedCells == {x \in CellsOf(entry.dimension) : result.prop.board.state[x] # entry.state[x]}

TierOneClosed(b) ==
    \A x \in CellsOf(b.dimension) :
       b.state[x] = EMPTY =>
          /\ b.row_counts[x[1]] # 0 /\ b.col_counts[x[2]] # 0
          /\ count_in_line(b, x[1], TRUE)[1] # b.row_counts[x[1]]
          /\ count_in_line(b, x[2], FALSE)[1] # b.col_counts[x[2]]
          /\ \A k \in 1 .. Len(Neighbours(b, x, DIAGONAL)) :
                b.state[Neighbours(b, x, DIAGONAL)[k]] # SHIP

\* every line of the board has at most as many SHIP cells as its clue
WithinClues(b) ==
    \A i \in Idx(b.dimension) :
       /\ count_in_line(b, i, TRUE)[1] <= b.row_counts[i]
       /\ count_in_line(b, i, FALSE)[1] <= b.col_counts[i]

\* C30: whenever the driver calls a rule of tier 2 or higher the board is
\* closed under T1.1, T1.2 and T1.3; and when every line of the initial board
\* has ships <= clue, no batch that is applied comes from T2.4
TierOneClosure ==
    /\ (pc = "tier" /\ tier >= 2) => TierOneClosed(board)
    /\ WithinClues(entry) =>
          /\ \A k \in DOMAIN deductions : deductions[k].technique # "T2.4"
          /\ \A k \in DOMAIN techniques_used : techniques_used[k].technique # "T2.4"

\* T2.4 is called on a board that has SHIP and EMPTY cells, after a batch was applied
TierOneClosureWitness ==
    /\ pc = "tier"
    /\ RULES[tier][rule_idx] = "T2.4"
    /\ WithinClues(entry)
    /\ techniques_used # <<>>
    /\ \E x, y \in CellsOf(board.dimension) : board.state[x] = EMPTY /\ board.state[y] = SHIP

====
